---- MODULE Spec2Model ----
(***************************************************************************)
(* Model of the CSV appointment import pipeline of ghl_accounts:           *)
(* csv_parser.parse_csv_rows, services._resolve_service_and_staff,          *)
(* services._friendly_booking_error, services.run_preview and              *)
(* services.run_import, with the remote contact and booking collaborators  *)
(* of ghl_client as nondeterministic outcomes.                             *)
(*                                                                         *)
(* Spec is the pipeline (one live run and dry runs of one file); SpecLive   *)
(* is the live run alone and SpecFair adds weak fairness of its row loop.   *)
(* SpecResolve,                                                             *)
(* SpecParse, SpecClassify and SpecRemap apply the Resolution Policy, the    *)
(* parser called directly as a generator (with skip_invalid either way),     *)
(* the error classifier and csv_parser._apply_column_mapping to bounded      *)
(* sets of arguments.  The read of views.PastAppointmentsListView is the     *)
(* operator PastAppointmentsList over the ImportedAppointment table.         *)
(*                                                                         *)
(* Text values are sequences of one-character strings, so that str.strip   *)
(* and the case-insensitive comparison of __iexact are computed.  Python's *)
(* None is the value None below for text and 0 for identifiers handed out  *)
(* by the remote service; a datetime is the integer YYYYMMDD and NoTime is *)
(* the None of parse_datetime.                                              *)
(***************************************************************************)
EXTENDS Integers, Sequences, FiniteSets, TLC

VARIABLES
    location_id,            \* run_import argument
    has_creds,              \* a GHLAuthCredentials row exists for location_id
    csv,                    \* file_content: the data rows under the header
    date_format,            \* run_import argument
    override_availability,  \* run_import argument
    mappings,               \* ServiceCalendarMapping table
    services,               \* GHLService table
    contacts,               \* remote contact store
    bookings,               \* remote booking store
    appointments,           \* ImportedAppointment table
    pc,                     \* "idle" | "rows" | "done": position of run_import
    now,                    \* run_import local: django_tz.now() at entry
    rows,                   \* records the parse_csv_rows generator has yet to yield
    imported, past_count, future_count, created_bookings,
    errors, row_results,    \* run_import locals
    result,                 \* the dict returned by the last live run
    preview,                \* the dict returned by the last dry run
    calls,                  \* trace of the calls made by the current live run
    preview_calls,          \* trace of the calls made by the last dry run
    rs_args, rs_first, rs_second, \* two evaluations of the Resolution Policy
    clock,                  \* the wall clock django_tz.now() reads
    skip_invalid,           \* parse_csv_rows argument of a direct call
    reader,                 \* data rows the generator has consumed
    yielded,                \* records the generator has yielded so far
    raised,                 \* the ValueError the generator raised, if any
    gen,                    \* "open" | "closed": state of the generator
    raw_error, friendly,    \* argument and result of _friendly_booking_error
    record, column_mapping, \* arguments of _apply_column_mapping
    mapped                  \* the record _apply_column_mapping returned

inputs  == <<location_id, has_creds, csv, date_format, override_availability,
             mappings, services>>
remote  == <<contacts, bookings>>
locals  == <<now, rows, imported, past_count, future_count, created_bookings,
             errors, row_results>>
resolv  == <<rs_args, rs_first, rs_second>>
parser  == <<skip_invalid, reader, yielded, raised, gen>>
classifier == <<raw_error, friendly>>
remapper == <<record, column_mapping, mapped>>
units   == <<resolv, parser, classifier, remapper>>
vars    == <<inputs, remote, appointments, pc, locals, result, preview,
             calls, preview_calls, units, clock>>

----------------------------------------------------------------------------
(* Text *)

None == <<"None">>

Blank == <<>>

Whitespace == {" "}

\* code point order of the characters used by the model
Ord == [c \in {" ", "1", "2", "3", "4", "9", "C", "D", "S", "T", "U",
               "a", "b", "c", "d", "e", "t", "u", "y"} |->
          CASE c = " " -> 32 [] c = "1" -> 49 [] c = "2" -> 50 [] c = "3" -> 51
            [] c = "4" -> 52 [] c = "9" -> 57 [] c = "C" -> 67 [] c = "D" -> 68
            [] c = "S" -> 83 [] c = "T" -> 84 [] c = "U" -> 85 [] c = "a" -> 97
            [] c = "b" -> 98 [] c = "c" -> 99 [] c = "d" -> 100 [] c = "e" -> 101
            [] c = "t" -> 116 [] c = "u" -> 117 [] c = "y" -> 121]

UpperCase == <<"A", "B", "C", "D", "E", "F", "G", "H", "I", "J", "K", "L", "M",
               "N", "O", "P", "Q", "R", "S", "T", "U", "V", "W", "X", "Y", "Z">>

LowerCase == <<"a", "b", "c", "d", "e", "f", "g", "h", "i", "j", "k", "l", "m",
               "n", "o", "p", "q", "r", "s", "t", "u", "v", "w", "x", "y", "z">>

LowerOf == [c \in {UpperCase[i] : i \in 1..26} |->
               LowerCase[CHOOSE i \in 1..26 : UpperCase[i] = c]]

\* str.lower() on one character
LowerChar(c) == IF c \in DOMAIN LowerOf THEN LowerOf[c] ELSE c

Lower(s) == [k \in 1..Len(s) |-> LowerChar(s[k])]

RECURSIVE LStrip(_)
LStrip(s) == IF s # <<>> /\ Head(s) \in Whitespace THEN LStrip(Tail(s)) ELSE s

RECURSIVE RStrip(_)
RStrip(s) == IF s # <<>> /\ s[Len(s)] \in Whitespace
             THEN RStrip(SubSeq(s, 1, Len(s) - 1)) ELSE s

\* str.strip()
Strip(s) == RStrip(LStrip(s))

\* (x or "").strip()
OrBlankStrip(s) == IF s = None THEN Blank ELSE Strip(s)

\* x or None
OrNone(s) == IF s = Blank THEN None ELSE s

\* truth value of an Optional[str]
Truthy(s) == s # None /\ s # Blank

\* column__iexact = value
IExact(a, b) == Lower(a) = Lower(b)

RECURSIVE StrLess(_, _)
StrLess(a, b) ==
    IF a = <<>> THEN b # <<>>
    ELSE IF b = <<>> THEN FALSE
    ELSE IF Ord[Head(a)] # Ord[Head(b)] THEN Ord[Head(a)] < Ord[Head(b)]
    ELSE StrLess(Tail(a), Tail(b))

----------------------------------------------------------------------------
(* Resolution Policy *)

NoRow == [absent |-> TRUE]

Unresolved == <<None, None, None>>

\* ServiceCalendarMapping.objects.filter(location_id=, service_name__iexact=)
MappingMatches(table, loc, name) ==
    {m \in table : m.location_id = loc /\ IExact(m.service_name, name)}

\* GHLService.objects.filter(location_id=, name__iexact=)
CatalogMatches(table, loc, name) ==
    {s \in table : s.location_id = loc /\ IExact(s.name, name)}

\* .first() of a queryset ordered by (location_id, service_name): the rows the
\* database may return first.  All matches share location_id; rows whose
\* ordering key is equal may come in either order.
MappingFirst(matches) ==
    IF matches = {} THEN {NoRow}
    ELSE {m \in matches :
            \A o \in matches : ~StrLess(o.service_name, m.service_name)}

\* .first() of a queryset ordered by (location_id, name)
CatalogFirst(matches) ==
    IF matches = {} THEN {NoRow}
    ELSE {s \in matches : \A o \in matches : ~StrLess(o.name, s.name)}

\* ResolveWith with the mapping's staff taking precedence over the inline one
ResolveWithMappingStaff(csv_service_id, csv_staff_id, mapping, catalog) ==
    LET service_id0 == OrNone(OrBlankStrip(csv_service_id))
        staff_id0   == OrNone(OrBlankStrip(csv_staff_id))
        service_id1 == IF ~Truthy(service_id0)
                       THEN IF catalog # NoRow THEN catalog.service_id
                            ELSE IF mapping # NoRow THEN mapping.service_id
                            ELSE service_id0
                       ELSE service_id0
        fromMapping == mapping # NoRow
        staff_id1   == IF fromMapping THEN mapping.staff_id ELSE staff_id0
        calendar_id == IF fromMapping THEN mapping.calendar_id ELSE None
    IN  IF Truthy(service_id1) /\ Truthy(staff_id1)
        THEN <<service_id1, staff_id1, calendar_id>>
        ELSE Unresolved

\* ResolveWith without the final check that both ids are set
ResolveWithPartial(csv_service_id, csv_staff_id, mapping, catalog) ==
    LET service_id0 == OrNone(OrBlankStrip(csv_service_id))
        staff_id0   == OrNone(OrBlankStrip(csv_staff_id))
        service_id1 == IF ~Truthy(service_id0)
                       THEN IF catalog # NoRow THEN catalog.service_id
                            ELSE IF mapping # NoRow THEN mapping.service_id
                            ELSE service_id0
                       ELSE service_id0
        fromMapping == ~Truthy(staff_id0) /\ mapping # NoRow
        staff_id1   == IF fromMapping THEN mapping.staff_id ELSE staff_id0
        calendar_id == IF fromMapping THEN mapping.calendar_id ELSE None
    IN  IF Truthy(service_id0) /\ Truthy(staff_id0)
        THEN <<service_id0, staff_id0, None>>
        ELSE <<service_id1, staff_id1, calendar_id>>

\* ResolveWith preferring the mapping's service_id to the catalog's
ResolveWithMappingPreferred(csv_service_id, csv_staff_id, mapping, catalog) ==
    LET service_id0 == OrNone(OrBlankStrip(csv_service_id))
        staff_id0   == OrNone(OrBlankStrip(csv_staff_id))
        service_id1 == IF ~Truthy(service_id0)
                       THEN IF mapping # NoRow THEN mapping.service_id
                            ELSE IF catalog # NoRow THEN catalog.service_id
                            ELSE service_id0
                       ELSE service_id0
        fromMapping == ~Truthy(staff_id0) /\ mapping # NoRow
        staff_id1   == IF fromMapping THEN mapping.staff_id ELSE staff_id0
        calendar_id == IF fromMapping THEN mapping.calendar_id ELSE None
    IN  IF Truthy(service_id0) /\ Truthy(staff_id0)
        THEN <<service_id0, staff_id0, None>>
        ELSE IF Truthy(service_id1) /\ Truthy(staff_id1)
        THEN <<service_id1, staff_id1, calendar_id>>
        ELSE Unresolved

\* _resolve_service_and_staff, given the rows its two .first() calls return
ResolveWith(csv_service_id, csv_staff_id, mapping, catalog) ==
    LET service_id0 == OrNone(OrBlankStrip(csv_service_id))
        staff_id0   == OrNone(OrBlankStrip(csv_staff_id))
        service_id1 == IF ~Truthy(service_id0)
                       THEN IF catalog # NoRow THEN catalog.service_id
                            ELSE IF mapping # NoRow THEN mapping.service_id
                            ELSE service_id0
                       ELSE service_id0
        fromMapping == ~Truthy(staff_id0) /\ mapping # NoRow
        staff_id1   == IF fromMapping THEN mapping.staff_id ELSE staff_id0
        calendar_id == IF fromMapping THEN mapping.calendar_id ELSE None
    IN  IF Truthy(service_id0) /\ Truthy(staff_id0)
        THEN <<service_id0, staff_id0, None>>
        ELSE IF Truthy(service_id1) /\ Truthy(staff_id1)
        THEN <<service_id1, staff_id1, calendar_id>>
        ELSE Unresolved

\* the results _resolve_service_and_staff may return on the given tables
ResolveResults(mtable, stable, loc, name, csv_service_id, csv_staff_id) ==
    {ResolveWith(csv_service_id, csv_staff_id, m, c) :
        m \in MappingFirst(MappingMatches(mtable, loc, name)),
        c \in CatalogFirst(CatalogMatches(stable, loc, name))}

----------------------------------------------------------------------------
(* CSV parser *)

NoTime == 0

DATETIME_FORMATS ==
    << "%m/%d/%Y %H:%M:%S", "%m/%d/%Y %I:%M:%S %p", "%m-%d-%Y %H:%M:%S",
       "%Y-%m-%d %H:%M:%S", "%Y-%m-%dT%H:%M:%S", "%d/%m/%Y %H:%M:%S",
       "%d/%m/%Y %I:%M:%S %p", "%m/%d/%Y %H:%M", "%Y-%m-%d %H:%M" >>

PresetNames == {"DD/MM/YYYY", "YYYY-MM-DD", "MM/DD/YYYY", "ISO"}

DATE_FORMAT_PRESETS ==
    [p \in PresetNames |->
        CASE p = "DD/MM/YYYY" -> << "%d/%m/%Y %H:%M:%S", "%d/%m/%Y %I:%M:%S %p",
                                    "%d/%m/%Y %H:%M", "%d/%m/%Y" >>
          [] p = "YYYY-MM-DD" -> << "%Y-%m-%d %H:%M:%S", "%Y-%m-%dT%H:%M:%S",
                                    "%Y-%m-%d %H:%M", "%Y-%m-%d" >>
          [] p = "MM/DD/YYYY" -> << "%m/%d/%Y %H:%M:%S", "%m/%d/%Y %I:%M:%S %p",
                                    "%m/%d/%Y %H:%M", "%m/%d/%Y" >>
          [] p = "ISO"        -> << "%Y-%m-%dT%H:%M:%S", "%Y-%m-%d %H:%M:%S",
                                    "%Y-%m-%d %H:%M" >>]

\* the timestamp texts of the model as strptime reads them: three number
\* fields a, b, c joined by sep, then the joiner and the clock text written
\* in the layout named by clock; any other text is junk
TimeText(value) ==
    CASE value = "01/02/2025 10:00:00" ->
            [a |-> 1, b |-> 2, c |-> 2025, sep |-> "/", clock |-> " %H:%M:%S"]
      [] value = "13/01/2025 10:00:00" ->
            [a |-> 13, b |-> 1, c |-> 2025, sep |-> "/", clock |-> " %H:%M:%S"]
      [] value = "13/01/2020 10:00:00" ->
            [a |-> 13, b |-> 1, c |-> 2020, sep |-> "/", clock |-> " %H:%M:%S"]
      [] value = "01/02/2025 10:00" ->
            [a |-> 1, b |-> 2, c |-> 2025, sep |-> "/", clock |-> " %H:%M"]
      [] value = "01/02/2025" ->
            [a |-> 1, b |-> 2, c |-> 2025, sep |-> "/", clock |-> ""]
      [] value = "2030-03-04 10:00:00" ->
            [a |-> 2030, b |-> 3, c |-> 4, sep |-> "-", clock |-> " %H:%M:%S"]
      [] value = "2030-03-04T10:00:00" ->
            [a |-> 2030, b |-> 3, c |-> 4, sep |-> "-", clock |-> "T%H:%M:%S"]
      [] value = "2030-03-04" ->
            [a |-> 2030, b |-> 3, c |-> 4, sep |-> "-", clock |-> ""]
      [] OTHER -> [junk |-> TRUE]

\* a format string of the module split into the order of its date
\* directives, their separator and the rest of the format
FormatLayout(fmt) ==
    CASE fmt = "%m/%d/%Y %H:%M:%S"    -> [order |-> "mdY", sep |-> "/", clock |-> " %H:%M:%S"]
      [] fmt = "%m/%d/%Y %I:%M:%S %p" -> [order |-> "mdY", sep |-> "/", clock |-> " %I:%M:%S %p"]
      [] fmt = "%m/%d/%Y %H:%M"       -> [order |-> "mdY", sep |-> "/", clock |-> " %H:%M"]
      [] fmt = "%m/%d/%Y"             -> [order |-> "mdY", sep |-> "/", clock |-> ""]
      [] fmt = "%m-%d-%Y %H:%M:%S"    -> [order |-> "mdY", sep |-> "-", clock |-> " %H:%M:%S"]
      [] fmt = "%d/%m/%Y %H:%M:%S"    -> [order |-> "dmY", sep |-> "/", clock |-> " %H:%M:%S"]
      [] fmt = "%d/%m/%Y %I:%M:%S %p" -> [order |-> "dmY", sep |-> "/", clock |-> " %I:%M:%S %p"]
      [] fmt = "%d/%m/%Y %H:%M"       -> [order |-> "dmY", sep |-> "/", clock |-> " %H:%M"]
      [] fmt = "%d/%m/%Y"             -> [order |-> "dmY", sep |-> "/", clock |-> ""]
      [] fmt = "%Y-%m-%d %H:%M:%S"    -> [order |-> "Ymd", sep |-> "-", clock |-> " %H:%M:%S"]
      [] fmt = "%Y-%m-%dT%H:%M:%S"    -> [order |-> "Ymd", sep |-> "-", clock |-> "T%H:%M:%S"]
      [] fmt = "%Y-%m-%d %H:%M"       -> [order |-> "Ymd", sep |-> "-", clock |-> " %H:%M"]
      [] fmt = "%Y-%m-%d"             -> [order |-> "Ymd", sep |-> "-", clock |-> ""]

\* days of a month of the proleptic Gregorian calendar
DaysIn(year, month) ==
    IF month \in {4, 6, 9, 11} THEN 30
    ELSE IF month # 2 THEN 31
    ELSE IF year % 4 = 0 /\ (year % 100 # 0 \/ year % 400 = 0) THEN 29 ELSE 28

\* datetime.strptime(value, fmt): the parsed day as YYYYMMDD, or NoTime where
\* strptime raises ValueError (%Y takes four digits, %m 1..12, %d a day of
\* the month; separators and clock layout must match the format)
Strptime(value, fmt) ==
    LET t == TimeText(value)
        f == FormatLayout(fmt)
        year  == IF f.order = "Ymd" THEN t.a ELSE t.c
        month == IF f.order = "mdY" THEN t.a ELSE t.b
        day   == IF f.order = "mdY" THEN t.b ELSE IF f.order = "dmY" THEN t.a ELSE t.c
    IN  IF t = [junk |-> TRUE] \/ t.sep # f.sep \/ t.clock # f.clock THEN NoTime
        ELSE IF year \in 1000..9999 /\ month \in 1..12 /\ day \in 1..DaysIn(year, month)
        THEN year * 10000 + month * 100 + day
        ELSE NoTime

RECURSIVE TryFormats(_, _, _)
TryFormats(value, fmts, k) ==
    IF k > Len(fmts) THEN NoTime
    ELSE LET parsed == Strptime(value, fmts[k])
         IN  IF parsed # NoTime THEN parsed ELSE TryFormats(value, fmts, k + 1)

NoFormat == "None"

parse_datetime(value, formats) ==
    IF value = "" THEN NoTime
    ELSE TryFormats(value, IF formats = <<>> THEN DATETIME_FORMATS ELSE formats, 1)

\* the preset's formats first, then the default list
ActiveFormatsThenDefault(fmt) ==
    IF fmt # NoFormat /\ fmt # "" /\ fmt \in PresetNames
    THEN DATE_FORMAT_PRESETS[fmt] \o DATETIME_FORMATS
    ELSE DATETIME_FORMATS

\* the format list parse_csv_rows selects for a date_format argument
ActiveFormats(fmt) ==
    IF fmt # NoFormat /\ fmt # "" /\ fmt \in PresetNames
    THEN DATE_FORMAT_PRESETS[fmt]
    ELSE DATETIME_FORMATS

\* the timestamp texts and the date_format arguments of the model
TimeTexts ==
    {"01/02/2025 10:00:00", "13/01/2025 10:00:00", "13/01/2020 10:00:00",
     "01/02/2025 10:00", "01/02/2025", "2030-03-04 10:00:00",
     "2030-03-04T10:00:00", "2030-03-04", "garbage", ""}

FormatArgs == PresetNames \cup {NoFormat, "", "D-M-Y"}

\* lines 143-144: parse_datetime(raw, formats) under the format list of a
\* date_format argument, tabulated over the texts of the model
Parsed ==
    [fmt \in FormatArgs |->
        [value \in TimeTexts |-> parse_datetime(value, ActiveFormats(fmt))]]

\* Record numbering the yielded rows consecutively: a counter advanced at
\* each yield instead of enumerate over the reader
RecordRenumbered(file, fmt, k) ==
    LET row == file[k]
        before == {i \in 1..k : /\ Parsed[fmt][file[i].start_time] # NoTime
                                /\ Parsed[fmt][file[i].end_time] # NoTime}
    IN  [email        |-> Strip(row.email),
         service_name |-> Strip(row.service_name),
         service_id   |-> Strip(row.service_id),
         staff_id     |-> Strip(row.staff_id),
         start_dt     |-> Parsed[fmt][row.start_time],
         end_dt       |-> Parsed[fmt][row.end_time],
         row_num      |-> Cardinality(before) + 1]

\* the record parse_csv_rows builds for data row k (file line k + 1)
Record(file, fmt, k) ==
    LET row == file[k]
    IN  [email        |-> Strip(row.email),
         service_name |-> Strip(row.service_name),
         service_id   |-> Strip(row.service_id),
         staff_id     |-> Strip(row.staff_id),
         start_dt     |-> Parsed[fmt][row.start_time],
         end_dt       |-> Parsed[fmt][row.end_time],
         row_num      |-> k + 1]

\* Yielded without the check of the parsed timestamps
YieldedUnchecked(file, fmt, k) == k \in 1..Len(file)

\* the row is yielded (skip_invalid mode drops the others)
Yielded(file, fmt, k) ==
    /\ Parsed[fmt][file[k].start_time] # NoTime
    /\ Parsed[fmt][file[k].end_time] # NoTime

\* the generator stopping at the first invalid row also in skip mode
RECURSIVE GeneratorNextStopping(_, _, _, _)
GeneratorNextStopping(file, fmt, skip, p) ==
    IF p >= Len(file) THEN [kind |-> "stop", at |-> p]
    ELSE IF Yielded(file, fmt, p + 1) THEN [kind |-> "yield", at |-> p + 1]
    ELSE IF skip THEN [kind |-> "stop", at |-> Len(file)]
    ELSE [kind |-> "raise", at |-> p + 1]

\* one next() of the generator after p consumed data rows (lines 130-156):
\* it yields data row `at`, raises ValueError at data row `at`, or is
\* exhausted
RECURSIVE GeneratorNext(_, _, _, _)
GeneratorNext(file, fmt, skip, p) ==
    IF p >= Len(file) THEN [kind |-> "stop", at |-> p]
    ELSE IF Yielded(file, fmt, p + 1) THEN [kind |-> "yield", at |-> p + 1]
    ELSE IF skip THEN GeneratorNext(file, fmt, skip, p + 1)
    ELSE [kind |-> "raise", at |-> p + 1]

\* the generator's next yield in skip_invalid mode, the mode of run_import
\* and run_preview: the index of the next data row that is yielded, or 0
\* when the generator is exhausted
NextYield(file, fmt, p) ==
    LET n == GeneratorNext(file, fmt, TRUE, p)
    IN  IF n.kind = "yield" THEN n.at ELSE 0

\* no ValueError has been raised
NoRaise == [absent |-> TRUE]

\* the ValueError with the row number counted from 1
ParseErrorFromOne(file, k) ==
    [row_num |-> k, start |-> file[k].start_time, end |-> file[k].end_time]

\* the ValueError of lines 149-152 for data row k: row number and raw values
ParseError(file, k) ==
    [row_num |-> k + 1, start |-> file[k].start_time, end |-> file[k].end_time]

\* list(parse_csv_rows(...)): the indices of the yielded rows, in order
RECURSIVE parse_csv_rows(_, _, _)
parse_csv_rows(file, fmt, p) ==
    LET k == NextYield(file, fmt, p)
    IN  IF k = 0 THEN <<>> ELSE <<k>> \o parse_csv_rows(file, fmt, k)

\* str.replace(" ", "_")
Underscore(s) == [k \in 1..Len(s) |-> IF s[k] = " " THEN "_" ELSE s[k]]

\* normalize_headers for one header name (line 90)
normalize_headers(h) == Underscore(Lower(Strip(h)))

\* line 99: str(csv_key or "").strip().lower().replace(" ", "_")
CsvKeyNorm(csv_key) ==
    normalize_headers(IF csv_key = None THEN Blank ELSE csv_key)

\* dict.get(key, default)
Get(dict, key, default) == IF key \in DOMAIN dict THEN dict[key] ELSE default

\* dict[key] = value
Put(dict, key, value) ==
    [k \in DOMAIN dict \cup {key} |-> IF k = key THEN value ELSE dict[k]]

\* the loop of lines 98-101 reading every value from the dict being built
RECURSIVE ApplyEntriesInPlace(_, _)
ApplyEntriesInPlace(out, entries) ==
    IF entries = <<>> THEN out
    ELSE LET our_key      == Head(entries)[1]
             csv_key_norm == CsvKeyNorm(Head(entries)[2])
         IN  ApplyEntriesInPlace(
                 IF csv_key_norm # Blank
                 THEN Put(out, our_key,
                          Get(out, csv_key_norm, Get(out, our_key, Blank)))
                 ELSE out,
                 Tail(entries))

\* the loop of lines 98-101 over the items of column_mapping, in their order
RECURSIVE ApplyEntries(_, _, _)
ApplyEntries(out, record_, entries) ==
    IF entries = <<>> THEN out
    ELSE LET our_key      == Head(entries)[1]
             csv_key_norm == CsvKeyNorm(Head(entries)[2])
         IN  ApplyEntries(
                 IF csv_key_norm # Blank
                 THEN Put(out, our_key,
                          Get(record_, csv_key_norm, Get(record_, our_key, Blank)))
                 ELSE out,
                 record_, Tail(entries))

\* _apply_column_mapping overwriting the record as it goes
ApplyColumnMappingInPlace(record_, column_mapping_) ==
    ApplyEntriesInPlace(record_, column_mapping_)

\* _apply_column_mapping (lines 93-102); column_mapping_ is the sequence of
\* the items of the dict, or empty for None and {}
_apply_column_mapping(record_, column_mapping_) ==
    IF column_mapping_ = <<>> THEN record_
    ELSE ApplyEntries(record_, record_, column_mapping_)

\* the record and the result of _apply_column_mapping before the call
EmptyDict == [k \in {} |-> Blank]

NoRecord == EmptyDict

NotMapped == [done |-> FALSE, out |-> EmptyDict]

----------------------------------------------------------------------------
(* Remote collaborators (ghl_client) *)

NoId == 0

NoError == "None"

Outcomes == {"ok", "error"}

\* get_contact_id_by_email against the remote store: (contact_id, error)
get_contact_id_by_email(store, email, outcome) ==
    IF outcome = "error" THEN [contact_id |-> NoId, error |-> "search failed"]
    ELSE IF \E k \in 1..Len(store) : store[k].email = email
    THEN [contact_id |-> store[CHOOSE k \in 1..Len(store) :
                                   /\ store[k].email = email
                                   /\ \A j \in 1..(k - 1) : store[j].email # email].id,
          error |-> NoError]
    ELSE [contact_id |-> NoId, error |-> NoError]

\* create_contact against the remote store: (contact_id, error) and the store
create_contact(store, email, outcome) ==
    IF outcome = "error"
    THEN [contact_id |-> NoId, error |-> "create failed", store |-> store]
    ELSE [contact_id |-> Len(store) + 1, error |-> NoError,
          store |-> Append(store, [id |-> Len(store) + 1, email |-> email,
                                   by_pipeline |-> TRUE])]

\* GetOrCreateContact that creates the contact whatever the search returned
GetOrCreateContactAlways(store, email, row_num, so, co) ==
    LET found   == get_contact_id_by_email(store, email, so)
        searchC == [op |-> "search", row |-> row_num, ok |-> found.contact_id # NoId,
                    failed |-> found.error # NoError]
        made    == create_contact(store, email, co)
        createC == [op |-> "create", row |-> row_num, ok |-> made.contact_id # NoId,
                    failed |-> made.error # NoError]
    IN  [contact_id |-> IF found.contact_id # NoId THEN found.contact_id
                        ELSE made.contact_id,
         store |-> made.store,
         trace |-> <<searchC, createC>>,
         detail |-> IF found.error # NoError THEN found.error ELSE made.error]

\* run_import step 1 (get or create contact) for one row
GetOrCreateContact(store, email, row_num, so, co) ==
    LET found   == get_contact_id_by_email(store, email, so)
        searchC == [op |-> "search", row |-> row_num, ok |-> found.contact_id # NoId,
                    failed |-> found.error # NoError]
        made    == create_contact(store, email, co)
        createC == [op |-> "create", row |-> row_num, ok |-> made.contact_id # NoId,
                    failed |-> made.error # NoError]
    IN  IF found.contact_id # NoId
        THEN [contact_id |-> found.contact_id, store |-> store,
              trace |-> <<searchC>>, detail |-> NoError]
        ELSE [contact_id |-> made.contact_id, store |-> made.store,
              trace |-> <<searchC, createC>>,
              detail |-> IF found.error # NoError THEN found.error ELSE made.error]

----------------------------------------------------------------------------
(* Error classifier (services._friendly_booking_error) *)

\* sub in s
Contains(s, sub) ==
    \E i \in 1..(Len(s) - Len(sub) + 1) : SubSeq(s, i, i + Len(sub) - 1) = sub

\* s.split(sep)[0] for a sep that occurs in s
SplitFirst(s, sep) ==
    LET i == CHOOSE i \in 1..(Len(s) - Len(sep) + 1) :
                /\ SubSeq(s, i, i + Len(sep) - 1) = sep
                /\ \A j \in 1..(i - 1) : SubSeq(s, j, j + Len(sep) - 1) # sep
    IN  SubSeq(s, 1, i - 1)

\* line 25
BookingMsgText ==
    <<"B", "o", "o", "k", "i", "n", "g", " ", "c", "o", "u", "l", "d", " ",
      "n", "o", "t", " ", "b", "e", " ", "c", "r", "e", "a", "t", "e", "d",
      ".">>

\* the second sentence of lines 30 and 35 (ldquo and rdquo are the curly quotes)
OverrideHint ==
    <<" ", "C", "h", "o", "o", "s", "e", " ", "a", " ", "d", "i", "f", "f",
      "e", "r", "e", "n", "t", " ", "t", "i", "m", "e", ",", " ", "o", "r",
      " ", "e", "n", "a", "b", "l", "e", " ", "ldquo", "O", "v", "e", "r",
      "r", "i", "d", "e", " ", "s", "l", "o", "t", " ", "a", "v", "a", "i",
      "l", "a", "b", "i", "l", "i", "t", "y", "rdquo", " ", "t", "o", " ",
      "b", "o", "o", "k", " ", "a", "n", "y", "w", "a", "y", ".">>

SlotGoneMsg ==
    <<"T", "h", "i", "s", " ", "t", "i", "m", "e", " ", "s", "l", "o", "t",
      " ", "i", "s", " ", "n", "o", " ", "l", "o", "n", "g", "e", "r", " ",
      "a", "v", "a", "i", "l", "a", "b", "l", "e", ".">>

SlotTakenMsg ==
    <<"T", "h", "i", "s", " ", "s", "l", "o", "t", " ", "i", "s", " ", "a",
      "l", "r", "e", "a", "d", "y", " ", "t", "a", "k", "e", "n", ".">>

\* lines 40-41
SlotUnavailableMsg ==
    <<"T", "h", "i", "s", " ", "t", "i", "m", "e", " ", "s", "l", "o", "t",
      " ", "i", "s", " ", "n", "o", "t", " ", "a", "v", "a", "i", "l", "a",
      "b", "l", "e", ".", " ", "T", "r", "y", " ", "a", "n", "o", "t", "h",
      "e", "r", " ", "t", "i", "m", "e", " ", "o", "r", " ", "e", "n", "a",
      "b", "l", "e", " ", "ldquo", "O", "v", "e", "r", "r", "i", "d", "e",
      " ", "s", "l", "o", "t", " ", "a", "v", "a", "i", "l", "a", "b", "i",
      "l", "i", "t", "y", "rdquo", ".">>

KwSlotGone ==
    <<"s", "l", "o", "t", " ", "i", "s", " ", "n", "o", " ", "l", "o", "n",
      "g", "e", "r", " ", "a", "v", "a", "i", "l", "a", "b", "l", "e">>

KwGone ==
    <<"n", "o", " ", "l", "o", "n", "g", "e", "r", " ", "a", "v", "a", "i",
      "l", "a", "b", "l", "e">>

KwConflict ==
    <<"c", "o", "n", "f", "l", "i", "c", "t">>

KwBooked ==
    <<"a", "l", "r", "e", "a", "d", "y", " ", "b", "o", "o", "k", "e", "d">>

KwServerError ==
    <<"i", "n", "t", "e", "r", "n", "a", "l", " ", "s", "e", "r", "v", "e",
      "r", " ", "e", "r", "r", "o", "r">>

Kw500 ==
    <<"5", "0", "0">>

KwSlot ==
    <<"s", "l", "o", "t">>

KwAvailable ==
    <<"a", "v", "a", "i", "l", "a", "b", "l", "e">>

\* the separators of line 44, in the order they are tried (emdash is the
\* character U+2014)
Separators == << <<".", " ">>, <<" ", "emdash", " ">>, <<":", " ">> >>

MaxMessage == 120

\* the classifier has not returned yet
NotCalled == <<"NotCalled">>

\* lines 43-47: first sentence or first 120 characters of the raw message
PassThrough(raw_error_) ==
    LET present == {k \in 1..Len(Separators) : Contains(raw_error_, Separators[k])}
    IN  IF present # {}
        THEN LET sep == Separators[CHOOSE k \in present : \A i \in present : k <= i]
             IN  Strip(SplitFirst(raw_error_, sep)) \o <<".">>
        ELSE IF Len(raw_error_) > MaxMessage
        THEN SubSeq(raw_error_, 1, MaxMessage) \o <<".", ".", ".">>
        ELSE raw_error_

\* the classifier with the conflict keywords tested first
ConflictFirst(raw_error_) ==
    IF ~Truthy(raw_error_) THEN BookingMsgText
    ELSE LET err_lower == Lower(raw_error_)
         IN  IF Contains(err_lower, KwConflict) \/ Contains(err_lower, KwBooked)
             THEN SlotTakenMsg \o OverrideHint
             ELSE IF Contains(err_lower, KwSlotGone) \/ Contains(err_lower, KwGone)
             THEN SlotGoneMsg \o OverrideHint
             ELSE IF /\ Contains(err_lower, KwServerError) \/ Contains(err_lower, Kw500)
                     /\ Contains(err_lower, KwSlot) \/ Contains(err_lower, KwAvailable)
             THEN SlotUnavailableMsg
             ELSE PassThrough(raw_error_)

\* the classifier without the conflict keywords
ConflictUnclassified(raw_error_) ==
    IF ~Truthy(raw_error_) THEN BookingMsgText
    ELSE LET err_lower == Lower(raw_error_)
         IN  IF Contains(err_lower, KwSlotGone) \/ Contains(err_lower, KwGone)
             THEN SlotGoneMsg \o OverrideHint
             ELSE PassThrough(raw_error_)

_friendly_booking_error(raw_error_) ==
    IF ~Truthy(raw_error_) THEN BookingMsgText
    ELSE LET err_lower == Lower(raw_error_)
         IN  IF Contains(err_lower, KwSlotGone) \/ Contains(err_lower, KwGone)
             THEN SlotGoneMsg \o OverrideHint
             ELSE IF Contains(err_lower, KwConflict) \/ Contains(err_lower, KwBooked)
             THEN SlotTakenMsg \o OverrideHint
             ELSE IF /\ Contains(err_lower, KwServerError) \/ Contains(err_lower, Kw500)
                     /\ Contains(err_lower, KwSlot) \/ Contains(err_lower, KwAvailable)
             THEN SlotUnavailableMsg
             ELSE PassThrough(raw_error_)

----------------------------------------------------------------------------
(* run_preview *)

\* lines 143 and 275: the message without the service name
UnresolvedMsg ==
    <<"C", "o", "u", "l", "d", " ", "n", "o", "t", " ", "r", "e", "s", "o",
      "l", "v", "e", " ", "s", "e", "r", "v", "i", "c", "e", "_", "i", "d",
      "/", "s", "t", "a", "f", "f", "_", "i", "d">>

MissingEmailMsg ==
    <<"M", "i", "s", "s", "i", "n", "g", " ", "e", "m", "a", "i", "l">>

\* line 215: the message without row number and name
MissingEmailError ==
    <<"m", "i", "s", "s", "i", "n", "g", " ", "e", "m", "a", "i", "l">>

RowResult(row_num, ok, booking_id, err) ==
    [row |-> row_num, success |-> ok, ghl_booking_id |-> booking_id, error |-> err]

\* the row-result run_preview appends for a yielded record, given the triple
\* _resolve_service_and_staff returns for it
PreviewRow(rec, triple) ==
    IF ~Truthy(Strip(rec.email))
    THEN RowResult(rec.row_num, FALSE, NoId, MissingEmailMsg)
    ELSE IF ~Truthy(triple[1]) \/ ~Truthy(triple[2])
    THEN RowResult(rec.row_num, FALSE, NoId, UnresolvedMsg)
    ELSE RowResult(rec.row_num, TRUE, NoId, None)

\* the Resolution Policy call run_preview makes for a yielded record
PreviewCalls(rec) ==
    IF ~Truthy(Strip(rec.email)) THEN <<>>
    ELSE <<[op |-> "resolve", row |-> rec.row_num, ok |-> TRUE]>>

\* the row_results lists run_preview may build over the yielded rows
RECURSIVE PreviewResults(_, _, _, _, _, _)
PreviewResults(file, fmt, loc, mtable, stable, idx) ==
    IF idx = <<>> THEN {<<>>}
    ELSE LET rec == Record(file, fmt, Head(idx))
         IN  {<<PreviewRow(rec, t)>> \o rest :
                 t \in ResolveResults(mtable, stable, loc, Strip(rec.service_name),
                                      Strip(rec.service_id), Strip(rec.staff_id)),
                 rest \in PreviewResults(file, fmt, loc, mtable, stable, Tail(idx))}

RECURSIVE PreviewTrace(_, _, _)
PreviewTrace(file, fmt, idx) ==
    IF idx = <<>> THEN <<>>
    ELSE PreviewCalls(Record(file, fmt, Head(idx))) \o PreviewTrace(file, fmt, Tail(idx))

CountSuccess(rr, flag) == Cardinality({k \in 1..Len(rr) : rr[k].success = flag})

\* the dict run_preview returns for a row_results list
PreviewDict(idx, rr) ==
    [success |-> TRUE, total_rows |-> Len(idx),
     would_succeed |-> CountSuccess(rr, TRUE),
     would_fail |-> CountSuccess(rr, FALSE), row_results |-> rr]

NoResult == [success |-> FALSE, error |-> "not run"]

NoCredentials == [success |-> FALSE, error |-> "No OAuth credentials found for this location_id.",
                  imported |-> 0, past_count |-> 0, future_count |-> 0,
                  created_bookings |-> 0, errors |-> <<>>]

----------------------------------------------------------------------------
(* Bounds and input sets *)

MaxRows == 2

MaxMappings == 2

MaxServices == 2

MaxParseRows == 3

MaxFragments == 3

MaxEntries == 2

S1 == <<"S", "1">>
S2 == <<"S", "2">>
S3 == <<"S", "3">>
S4 == <<"S", "4">>
S9 == <<"S", "9">>
T1 == <<"T", "1">>
T2 == <<"T", "2">>
T3 == <<"T", "3">>
T9 == <<"T", "9">>
C1 == <<"C", "1">>
C2 == <<"C", "2">>
C3 == <<"C", "3">>
C4 == <<"C", "4">>
Cut == <<"C", "u", "t">>
cut == <<"c", "u", "t">>
CUT == <<"C", "U", "T">>
Dye == <<"D", "y", "e">>

Mapping(loc, name, sid, staff, cal) ==
    [location_id |-> loc, service_name |-> name, service_id |-> sid,
     staff_id |-> staff, calendar_id |-> cal]

Service(loc, sid, name) == [location_id |-> loc, service_id |-> sid, name |-> name]

MappingUniverse ==
    { Mapping("L1", Cut, S1, T1, C1), Mapping("L1", cut, S2, T2, C2),
      Mapping("L2", Cut, S3, T3, C3), Mapping("L1", Dye, S4, Blank, C4),
      Mapping("L1", Cut, S2, T2, C2) }

ServiceUniverse ==
    { Service("L1", S3, Cut), Service("L1", S4, Cut), Service("L1", S2, CUT),
      Service("L2", S1, Cut), Service("L1", Blank, Dye), Service("L1", S3, Dye) }

\* models.UniqueConstraint(fields=["location_id", "service_name"])
unique_location_service(table) ==
    \A a, b \in table :
        (a.location_id = b.location_id /\ a.service_name = b.service_name) => a = b

\* models.UniqueConstraint(fields=("location_id", "service_id"))
unique_location_ghl_service(table) ==
    \A a, b \in table :
        (a.location_id = b.location_id /\ a.service_id = b.service_id) => a = b

MappingTables ==
    {t \in SUBSET MappingUniverse :
        Cardinality(t) <= MaxMappings /\ unique_location_service(t)}

ServiceTables ==
    {t \in SUBSET ServiceUniverse :
        Cardinality(t) <= MaxServices /\ unique_location_ghl_service(t)}

Locations == {"L1", "L2"}

ServiceNames == {Cut, cut, Dye}

InlineServiceIds == {None, <<" ">>, S9, <<" ", "S", "9", " ">>}

InlineStaffIds == {None, Blank, T9}

Row(email, name, sid, staff, start, end) ==
    [email |-> email, service_name |-> name, service_id |-> sid,
     staff_id |-> staff, start_time |-> start, end_time |-> end]

RowSet ==
    { Row(<<"a">>, <<" ", "c", "u", "t">>, Blank, Blank,
          "01/02/2025 10:00:00", "01/02/2025 10:00:00"),
      Row(<<"a", " ">>, Dye, Blank, Blank, "2030-03-04 10:00:00", "2030-03-04 10:00:00"),
      Row(<<" ">>, Cut, Blank, Blank, "2030-03-04 10:00:00", "2030-03-04 10:00:00"),
      Row(<<"b">>, Dye, S9, <<"T", "9", " ">>,
          "2030-03-04T10:00:00", "2030-03-04T10:00:00"),
      Row(<<"b">>, Cut, Blank, Blank, "2030-03-04 10:00:00", "garbage") }

RECURSIVE Files(_)
Files(n) == IF n = 0 THEN {<<>>}
            ELSE Files(n - 1) \cup
                 {Append(f, r) : f \in {g \in Files(n - 1) : Len(g) = n - 1}, r \in RowSet}

DateFormats == {NoFormat, "DD/MM/YYYY"}

Nows == {20250115, 20310101}

RunCatalogs ==
    { [mappings |-> {}, services |-> {}],
      [mappings |-> {Mapping("L1", Cut, S1, T1, C1)},
       services |-> {Service("L1", S3, Cut)}] }

FrGone ==
    <<"S", "l", "o", "t", " ", "i", "s", " ", "N", "o", " ", "L", "o", "n",
      "g", "e", "r", " ", "A", "v", "a", "i", "l", "a", "b", "l", "e">>

FrConflict ==
    <<"C", "o", "n", "f", "l", "i", "c", "t">>

FrBooked ==
    <<"a", "l", "r", "e", "a", "d", "y", " ", "B", "O", "O", "K", "E", "D">>

Fr500 ==
    <<"5", "0", "0">>

FrServerError ==
    <<"I", "n", "t", "e", "r", "n", "a", "l", " ", "S", "e", "r", "v", "e",
      "r", " ", "E", "r", "r", "o", "r">>

FrSlot ==
    <<"s", "l", "o", "t">>

FrTimeout ==
    <<"R", "e", "a", "d", " ", "t", "i", "m", "e", "d", " ", "o", "u", "t">>

FrStop ==
    <<".", " ">>

FrDash ==
    <<" ", "emdash", " ">>

FrColon ==
    <<":", " ">>

\* a text of one character more than the pass-through limit
FrLong == [k \in 1..(MaxMessage + 1) |-> "x"]

Fragments == {FrGone, FrConflict, FrBooked, Fr500, FrServerError, FrSlot,
              FrTimeout, FrStop, FrDash, FrColon, FrLong}

\* raw error texts: up to n fragments one after the other
RECURSIVE RawTexts(_)
RawTexts(n) ==
    IF n = 0 THEN {Blank}
    ELSE RawTexts(n - 1) \cup {t \o f : t \in RawTexts(n - 1), f \in Fragments}

\* what create_service_booking may return as error_detail with no booking
\* id: nothing (a response without an id), or a conflict report
BookingErrors == {None, FrConflict \o FrColon \o FrBooked}

\* the remote contact store before the run: empty, or holding the contact an
\* earlier import of the same file created
InitialContacts ==
    { <<>>, <<[id |-> 1, email |-> <<"a">>, by_pipeline |-> TRUE]>> }

----------------------------------------------------------------------------
(* run_import *)

\* line 243: the message without email and detail
ContactMsg ==
    <<"C", "o", "u", "l", "d", " ", "n", "o", "t", " ", "g", "e", "t", " ",
      "o", "r", " ", "c", "r", "e", "a", "t", "e", " ", "c", "o", "n", "t",
      "a", "c", "t">>

\* the default of the column ImportedAppointment.location_id
DefaultLocation == ""

\* ImportedAppointment.objects.create(...): the three calls pass name, email,
\* phone, service_name, start_time, end_time, is_past and ghl_booking_id, so
\* that location_id takes the default of its column
Appointment(rec, past, booking_id) ==
    [email |-> Strip(rec.email), service_name |-> Strip(rec.service_name),
     start_time |-> rec.start_dt, end_time |-> rec.end_dt,
     is_past |-> past, ghl_booking_id |-> booking_id,
     location_id |-> DefaultLocation]

\* ImportedAppointment.objects.filter(is_past=True, location_id=loc): the
\* primary keys of the queryset
PastQuery(table, loc) ==
    {pk \in 1..Len(table) : table[pk].is_past /\ table[pk].location_id = loc}

\* PastAppointmentsListView.get without a contact filter: the primary keys
\* of the appointments on the pages of the read for loc, where known tells
\* that a credential record exists for loc
PastAppointmentsList(table, known, loc) ==
    IF loc = "" \/ ~known THEN {} ELSE PastQuery(table, loc)

\* objects_create that never writes the row
objects_create_unsaved(table, appointment) == table

\* ImportedAppointment.objects.create on the table
objects_create(table, appointment) == Append(table, appointment)

\* trace entry of a create: pk is the position of the new row in the table
PersistCall(rec) ==
    [op |-> "persist", row |-> rec.row_num, ok |-> TRUE, pk |-> Len(appointments) + 1]

\* trace entry of a call of _resolve_service_and_staff and what it returned
ResolveCall(rec, triple) ==
    [op |-> "resolve", row |-> rec.row_num, ok |-> triple # Unresolved,
     triple |-> triple]

\* the booking call made with the default of override_availability
BookCallDefaultOverride(rec, triple, contact_id, booking_id, booking_error) ==
    [op |-> "book", row |-> rec.row_num, ok |-> booking_id # NoId,
     service_id |-> triple[1], staff_id |-> triple[2], calendar_id |-> triple[3],
     contact_id |-> contact_id, override |-> TRUE,
     error |-> booking_error]

\* create_service_booking as the remote service sees it
BookCall(rec, triple, contact_id, booking_id, booking_error) ==
    [op |-> "book", row |-> rec.row_num, ok |-> booking_id # NoId,
     service_id |-> triple[1], staff_id |-> triple[2], calendar_id |-> triple[3],
     contact_id |-> contact_id, override |-> override_availability,
     error |-> booking_error]

\* the run is inside the row loop and the generator yields another record
AtRow == pc = "rows" /\ rows # <<>>

CurrentRecord == Head(rows)

\* the records the generator of parse_csv_rows yields, in order
Records(file, fmt) ==
    LET idx == parse_csv_rows(file, fmt, 0)
    IN  [k \in 1..Len(idx) |-> Record(file, fmt, idx[k])]

\* the triples the Resolution Policy may return for a record
RecordTriples(rec) ==
    ResolveResults(mappings, services, location_id, Strip(rec.service_name),
                   Strip(rec.service_id), Strip(rec.staff_id))

frame == <<inputs, pc, now, result, preview, preview_calls, units>>

\* time passes while a row waits for the remote collaborators
Elapse == clock' \in {t \in Nows : t >= clock}

\* the past/future test against the wall clock at the time of the row
IsPastByClock(rec) == rec.start_dt < clock

\* line 251: the past/future test against the now captured at entry
IsPast(rec) == rec.start_dt < now

\* StartRun without the credential check of lines 173-183
StartRunUnchecked ==
    /\ pc = "idle"
    /\ calls' = <<>>
    /\ imported' = 0 /\ past_count' = 0 /\ future_count' = 0
    /\ created_bookings' = 0
    /\ errors' = <<>> /\ row_results' = <<>>
    /\ now' = clock
    /\ rows' = Records(csv, date_format)
    /\ pc' = "rows"
    /\ result' = NoResult
    /\ UNCHANGED <<inputs, remote, appointments, preview, preview_calls, units, clock>>

\* run_import entry for dry_run=False (lines 173-198)
StartRun ==
    /\ pc = "idle"
    /\ calls' = <<>>
    /\ imported' = 0 /\ past_count' = 0 /\ future_count' = 0
    /\ created_bookings' = 0
    /\ errors' = <<>> /\ row_results' = <<>>
    /\ IF has_creds
       THEN /\ now' = clock
            /\ rows' = Records(csv, date_format)
            /\ pc' = "rows"
            /\ result' = NoResult
       ELSE /\ now' = now
            /\ rows' = <<>>
            /\ pc' = "done"
            /\ result' = NoCredentials
    /\ UNCHANGED <<inputs, remote, appointments, preview, preview_calls, units, clock>>

\* DryRun that also persists the first yielded row
DryRunPersisting ==
    /\ pc = "done"
    /\ has_creds
    /\ LET idx == parse_csv_rows(csv, date_format, 0)
       IN  /\ \E rr \in PreviewResults(csv, date_format, location_id,
                                       mappings, services, idx) :
                preview' = PreviewDict(idx, rr)
           /\ preview_calls' = PreviewTrace(csv, date_format, idx)
           /\ appointments' =
                 IF idx = <<>> THEN appointments
                 ELSE Append(appointments,
                             Appointment(Record(csv, date_format, idx[1]), FALSE, NoId))
    /\ UNCHANGED <<inputs, remote, pc, locals, result, calls, units, clock>>

\* run_import with dry_run=True: the credential check, then run_preview.
\* It reads the file, the arguments and the two catalogs only, none of which
\* any step changes, so a dry run before or during the live run returns what
\* a dry run after it returns; it is taken after the live run, where there
\* are contacts, appointments and bookings it could disturb.
DryRun ==
    /\ pc = "done"
    /\ IF has_creds
       THEN LET idx == parse_csv_rows(csv, date_format, 0)
            IN  /\ \E rr \in PreviewResults(csv, date_format, location_id,
                                            mappings, services, idx) :
                     preview' = PreviewDict(idx, rr)
                /\ preview_calls' = PreviewTrace(csv, date_format, idx)
       ELSE /\ preview' = NoCredentials
            /\ preview_calls' = <<>>
    /\ UNCHANGED <<inputs, remote, appointments, pc, locals, result,
                   calls, units, clock>>

\* RowMissingEmail with the email test after the contact search
RowMissingEmailSearched ==
    /\ AtRow
    /\ LET rec == CurrentRecord
       IN  /\ ~Truthy(Strip(rec.email))
           /\ \E so \in Outcomes :
                calls' = Append(calls, [op |-> "search", row |-> rec.row_num,
                                        ok |-> FALSE, failed |-> so = "error"])
           /\ errors' = Append(errors, [row |-> rec.row_num, text |-> MissingEmailError])
           /\ row_results' = Append(row_results,
                                    RowResult(rec.row_num, FALSE, NoId, MissingEmailMsg))
           /\ rows' = Tail(rows)
    /\ UNCHANGED <<remote, appointments, imported, past_count, future_count,
                   created_bookings>>
    /\ UNCHANGED <<frame, clock>>

\* lines 214-217: blank email
RowMissingEmail ==
    /\ AtRow
    /\ LET rec == CurrentRecord
       IN  /\ ~Truthy(Strip(rec.email))
           /\ errors' = Append(errors, [row |-> rec.row_num, text |-> MissingEmailError])
           /\ row_results' = Append(row_results,
                                    RowResult(rec.row_num, FALSE, NoId, MissingEmailMsg))
           /\ rows' = Tail(rows)
    /\ UNCHANGED <<remote, appointments, imported, past_count, future_count,
                   created_bookings, calls>>
    /\ UNCHANGED <<frame, clock>>

\* RowContactFailed raising out of run_import instead of recording the row
RowContactFailedAborting ==
    /\ AtRow
    /\ LET rec == CurrentRecord
       IN  /\ Truthy(Strip(rec.email))
           /\ \E so \in Outcomes, co \in Outcomes :
                LET c == GetOrCreateContact(contacts, Strip(rec.email), rec.row_num, so, co)
                IN  /\ c.contact_id = NoId
                    /\ contacts' = c.store
                    /\ calls' = calls \o c.trace
    /\ pc' = "done"
    /\ result' = [success |-> FALSE, error |-> "raised"]
    /\ UNCHANGED <<bookings, appointments, imported, past_count, future_count,
                   created_bookings, errors, row_results, rows>>
    /\ Elapse
    /\ UNCHANGED <<inputs, now, preview, preview_calls, units>>

\* lines 225-248: neither search nor create gives a contact id
RowContactFailed ==
    /\ AtRow
    /\ LET rec == CurrentRecord
       IN  /\ Truthy(Strip(rec.email))
           /\ \E so \in Outcomes, co \in Outcomes :
                LET c == GetOrCreateContact(contacts, Strip(rec.email), rec.row_num, so, co)
                IN  /\ c.contact_id = NoId
                    /\ contacts' = c.store
                    /\ calls' = calls \o c.trace
                    /\ errors' = Append(errors, [row |-> rec.row_num, text |-> ContactMsg])
                    /\ row_results' = Append(row_results,
                                             RowResult(rec.row_num, FALSE, NoId, ContactMsg))
           /\ rows' = Tail(rows)
    /\ UNCHANGED <<bookings, appointments, imported, past_count, future_count,
                   created_bookings>>
    /\ Elapse
    /\ UNCHANGED frame

\* RowPast with the Resolution Policy called before the past/future test
RowPastAfterResolve ==
    /\ AtRow
    /\ LET rec == CurrentRecord
       IN  /\ Truthy(Strip(rec.email))
           /\ IsPast(rec)
           /\ \E so \in Outcomes, co \in Outcomes, triple \in RecordTriples(rec) :
                LET c == GetOrCreateContact(contacts, Strip(rec.email), rec.row_num, so, co)
                IN  /\ c.contact_id # NoId
                    /\ contacts' = c.store
                    /\ calls' = calls \o c.trace
                                  \o <<ResolveCall(rec, triple), PersistCall(rec)>>
           /\ appointments' = objects_create(appointments, Appointment(rec, TRUE, NoId))
           /\ imported' = imported + 1
           /\ past_count' = past_count + 1
           /\ row_results' = Append(row_results,
                                    RowResult(rec.row_num, TRUE, NoId, None))
           /\ rows' = Tail(rows)
    /\ UNCHANGED <<bookings, future_count, created_bookings, errors>>
    /\ Elapse
    /\ UNCHANGED frame

\* RowPast without imported += 1
RowPastNotImported ==
    /\ AtRow
    /\ LET rec == CurrentRecord
       IN  /\ Truthy(Strip(rec.email))
           /\ IsPast(rec)
           /\ \E so \in Outcomes, co \in Outcomes :
                LET c == GetOrCreateContact(contacts, Strip(rec.email), rec.row_num, so, co)
                IN  /\ c.contact_id # NoId
                    /\ contacts' = c.store
                    /\ calls' = calls \o c.trace \o <<PersistCall(rec)>>
           /\ appointments' = objects_create(appointments, Appointment(rec, TRUE, NoId))
           /\ past_count' = past_count + 1
           /\ row_results' = Append(row_results,
                                    RowResult(rec.row_num, TRUE, NoId, None))
           /\ rows' = Tail(rows)
    /\ UNCHANGED <<bookings, future_count, created_bookings, errors, imported>>
    /\ Elapse
    /\ UNCHANGED frame

\* lines 250-265: past-dated row
RowPast ==
    /\ AtRow
    /\ LET rec == CurrentRecord
       IN  /\ Truthy(Strip(rec.email))
           /\ IsPast(rec)
           /\ \E so \in Outcomes, co \in Outcomes :
                LET c == GetOrCreateContact(contacts, Strip(rec.email), rec.row_num, so, co)
                IN  /\ c.contact_id # NoId
                    /\ contacts' = c.store
                    /\ calls' = calls \o c.trace \o <<PersistCall(rec)>>
           /\ appointments' = objects_create(appointments, Appointment(rec, TRUE, NoId))
           /\ imported' = imported + 1
           /\ past_count' = past_count + 1
           /\ row_results' = Append(row_results,
                                    RowResult(rec.row_num, TRUE, NoId, None))
           /\ rows' = Tail(rows)
    /\ UNCHANGED <<bookings, future_count, created_bookings, errors>>
    /\ Elapse
    /\ UNCHANGED frame

\* RowUnresolved that reports the row without saving it
RowUnresolvedSkipped ==
    /\ AtRow
    /\ LET rec == CurrentRecord
       IN  /\ Truthy(Strip(rec.email))
           /\ ~IsPast(rec)
           /\ \E so \in Outcomes, co \in Outcomes, triple \in RecordTriples(rec) :
                LET c == GetOrCreateContact(contacts, Strip(rec.email), rec.row_num, so, co)
                IN  /\ c.contact_id # NoId
                    /\ ~Truthy(triple[1]) \/ ~Truthy(triple[2])
                    /\ contacts' = c.store
                    /\ calls' = calls \o c.trace
                                  \o <<ResolveCall(rec, triple)>>
           /\ errors' = Append(errors, [row |-> rec.row_num, text |-> UnresolvedMsg])
           /\ appointments' = appointments
           /\ imported' = imported + 1
           /\ future_count' = future_count + 1
           /\ row_results' = Append(row_results,
                                    RowResult(rec.row_num, TRUE, NoId, UnresolvedMsg))
           /\ rows' = Tail(rows)
    /\ UNCHANGED <<bookings, past_count, created_bookings>>
    /\ Elapse
    /\ UNCHANGED frame

\* RowUnresolved that leaves the aggregate errors list alone
RowUnresolvedUnreported ==
    /\ AtRow
    /\ LET rec == CurrentRecord
       IN  /\ Truthy(Strip(rec.email))
           /\ ~IsPast(rec)
           /\ \E so \in Outcomes, co \in Outcomes, triple \in RecordTriples(rec) :
                LET c == GetOrCreateContact(contacts, Strip(rec.email), rec.row_num, so, co)
                IN  /\ c.contact_id # NoId
                    /\ ~Truthy(triple[1]) \/ ~Truthy(triple[2])
                    /\ contacts' = c.store
                    /\ calls' = calls \o c.trace
                                  \o <<ResolveCall(rec, triple), PersistCall(rec)>>
           /\ appointments' = objects_create(appointments, Appointment(rec, FALSE, NoId))
           /\ imported' = imported + 1
           /\ future_count' = future_count + 1
           /\ row_results' = Append(row_results,
                                    RowResult(rec.row_num, TRUE, NoId, UnresolvedMsg))
           /\ rows' = Tail(rows)
    /\ UNCHANGED <<bookings, past_count, created_bookings, errors>>
    /\ Elapse
    /\ UNCHANGED frame

\* lines 267-292: future-dated row the Resolution Policy does not resolve
RowUnresolved ==
    /\ AtRow
    /\ LET rec == CurrentRecord
       IN  /\ Truthy(Strip(rec.email))
           /\ ~IsPast(rec)
           /\ \E so \in Outcomes, co \in Outcomes, triple \in RecordTriples(rec) :
                LET c == GetOrCreateContact(contacts, Strip(rec.email), rec.row_num, so, co)
                IN  /\ c.contact_id # NoId
                    /\ ~Truthy(triple[1]) \/ ~Truthy(triple[2])
                    /\ contacts' = c.store
                    /\ calls' = calls \o c.trace
                                  \o <<ResolveCall(rec, triple), PersistCall(rec)>>
           /\ errors' = Append(errors, [row |-> rec.row_num, text |-> UnresolvedMsg])
           /\ appointments' = objects_create(appointments, Appointment(rec, FALSE, NoId))
           /\ imported' = imported + 1
           /\ future_count' = future_count + 1
           /\ row_results' = Append(row_results,
                                    RowResult(rec.row_num, TRUE, NoId, UnresolvedMsg))
           /\ rows' = Tail(rows)
    /\ UNCHANGED <<bookings, past_count, created_bookings>>
    /\ Elapse
    /\ UNCHANGED frame

\* lines 294-322: future-dated resolved row, booking created
RowBooked ==
    /\ AtRow
    /\ LET rec == CurrentRecord
       IN  /\ Truthy(Strip(rec.email))
           /\ ~IsPast(rec)
           /\ \E so \in Outcomes, co \in Outcomes, triple \in RecordTriples(rec) :
                LET c == GetOrCreateContact(contacts, Strip(rec.email), rec.row_num, so, co)
                    booking_id == Len(bookings) + 1
                IN  /\ c.contact_id # NoId
                    /\ Truthy(triple[1]) /\ Truthy(triple[2])
                    /\ contacts' = c.store
                    /\ bookings' = Append(bookings,
                                          [id |-> booking_id, contact_id |-> c.contact_id,
                                           service_id |-> triple[1], staff_id |-> triple[2],
                                           calendar_id |-> triple[3]])
                    /\ calls' = calls \o c.trace
                                  \o <<ResolveCall(rec, triple),
                                       BookCall(rec, triple, c.contact_id, booking_id, None),
                                       PersistCall(rec)>>
                    /\ appointments' = objects_create(appointments,
                                              Appointment(rec, FALSE, booking_id))
                    /\ row_results' = Append(row_results,
                                             RowResult(rec.row_num, TRUE, booking_id, None))
           /\ imported' = imported + 1
           /\ future_count' = future_count + 1
           /\ created_bookings' = created_bookings + 1
           /\ rows' = Tail(rows)
    /\ UNCHANGED <<past_count, errors>>
    /\ Elapse
    /\ UNCHANGED frame

\* RowBookingFailed that counts the failed booking as created
RowBookingFailedCounted ==
    /\ AtRow
    /\ LET rec == CurrentRecord
       IN  /\ Truthy(Strip(rec.email))
           /\ ~IsPast(rec)
           /\ \E so \in Outcomes, co \in Outcomes, triple \in RecordTriples(rec),
                 booking_error \in BookingErrors :
                LET c == GetOrCreateContact(contacts, Strip(rec.email), rec.row_num, so, co)
                    message == _friendly_booking_error(booking_error)
                IN  /\ c.contact_id # NoId
                    /\ Truthy(triple[1]) /\ Truthy(triple[2])
                    /\ contacts' = c.store
                    /\ calls' = calls \o c.trace
                                  \o <<ResolveCall(rec, triple),
                                       BookCall(rec, triple, c.contact_id, NoId,
                                                booking_error),
                                       PersistCall(rec)>>
                    /\ errors' = Append(errors, [row |-> rec.row_num, text |-> message])
                    /\ row_results' = Append(row_results,
                                             RowResult(rec.row_num, FALSE, NoId, message))
           /\ appointments' = objects_create(appointments, Appointment(rec, FALSE, NoId))
           /\ imported' = imported + 1
           /\ future_count' = future_count + 1
           /\ rows' = Tail(rows)
    /\ created_bookings' = created_bookings + 1
    /\ UNCHANGED <<bookings, past_count>>
    /\ Elapse
    /\ UNCHANGED frame

\* RowBookingFailed that calls the booking collaborator a second time
RowBookingFailedRetried ==
    /\ AtRow
    /\ LET rec == CurrentRecord
       IN  /\ Truthy(Strip(rec.email))
           /\ ~IsPast(rec)
           /\ \E so \in Outcomes, co \in Outcomes, triple \in RecordTriples(rec),
                 booking_error \in BookingErrors :
                LET c == GetOrCreateContact(contacts, Strip(rec.email), rec.row_num, so, co)
                    message == _friendly_booking_error(booking_error)
                IN  /\ c.contact_id # NoId
                    /\ Truthy(triple[1]) /\ Truthy(triple[2])
                    /\ contacts' = c.store
                    /\ calls' = calls \o c.trace
                                  \o <<ResolveCall(rec, triple),
                                       BookCall(rec, triple, c.contact_id, NoId,
                                                booking_error),
                                       BookCall(rec, triple, c.contact_id, NoId,
                                                booking_error),
                                       PersistCall(rec)>>
                    /\ errors' = Append(errors, [row |-> rec.row_num, text |-> message])
                    /\ row_results' = Append(row_results,
                                             RowResult(rec.row_num, FALSE, NoId, message))
           /\ appointments' = objects_create(appointments, Appointment(rec, FALSE, NoId))
           /\ imported' = imported + 1
           /\ future_count' = future_count + 1
           /\ rows' = Tail(rows)
    /\ UNCHANGED <<bookings, past_count, created_bookings>>
    /\ Elapse
    /\ UNCHANGED frame

\* lines 294-326: future-dated resolved row, booking call fails
RowBookingFailed ==
    /\ AtRow
    /\ LET rec == CurrentRecord
       IN  /\ Truthy(Strip(rec.email))
           /\ ~IsPast(rec)
           /\ \E so \in Outcomes, co \in Outcomes, triple \in RecordTriples(rec),
                 booking_error \in BookingErrors :
                LET c == GetOrCreateContact(contacts, Strip(rec.email), rec.row_num, so, co)
                    message == _friendly_booking_error(booking_error)
                IN  /\ c.contact_id # NoId
                    /\ Truthy(triple[1]) /\ Truthy(triple[2])
                    /\ contacts' = c.store
                    /\ calls' = calls \o c.trace
                                  \o <<ResolveCall(rec, triple),
                                       BookCall(rec, triple, c.contact_id, NoId,
                                                booking_error),
                                       PersistCall(rec)>>
                    /\ errors' = Append(errors, [row |-> rec.row_num, text |-> message])
                    /\ row_results' = Append(row_results,
                                             RowResult(rec.row_num, FALSE, NoId, message))
           /\ appointments' = objects_create(appointments, Appointment(rec, FALSE, NoId))
           /\ imported' = imported + 1
           /\ future_count' = future_count + 1
           /\ rows' = Tail(rows)
    /\ UNCHANGED <<bookings, past_count, created_bookings>>
    /\ Elapse
    /\ UNCHANGED frame

\* lines 328-336: the generator is exhausted, the summary is returned
FinishRun ==
    /\ pc = "rows"
    /\ rows = <<>>
    /\ pc' = "done"
    /\ result' = [success |-> TRUE, imported |-> imported, past_count |-> past_count,
                  future_count |-> future_count,
                  created_bookings |-> created_bookings,
                  errors |-> errors, row_results |-> row_results]
    /\ UNCHANGED <<inputs, remote, appointments, locals, preview, calls,
                   preview_calls, units, clock>>

----------------------------------------------------------------------------
(* Specification of the import pipeline *)

NoArgs == [absent |-> TRUE]

Idle ==
    /\ pc = "idle" /\ now = 0 /\ rows = <<>>
    /\ imported = 0 /\ past_count = 0 /\ future_count = 0 /\ created_bookings = 0
    /\ errors = <<>> /\ row_results = <<>>
    /\ result = NoResult /\ preview = NoResult
    /\ calls = <<>> /\ preview_calls = <<>>
    /\ bookings = <<>> /\ appointments = <<>>
    /\ rs_args = NoArgs /\ rs_first = Unresolved /\ rs_second = Unresolved
    /\ skip_invalid = TRUE /\ reader = 0 /\ yielded = <<>>
    /\ raised = NoRaise /\ gen = "closed"
    /\ raw_error = None /\ friendly = NotCalled
    /\ record = NoRecord /\ column_mapping = <<>> /\ mapped = NotMapped

Init ==
    /\ location_id = "L1"
    /\ has_creds \in BOOLEAN
    /\ csv \in Files(MaxRows)
    /\ date_format \in DateFormats
    /\ override_availability \in BOOLEAN
    /\ \E cat \in RunCatalogs : mappings = cat.mappings /\ services = cat.services
    /\ contacts \in InitialContacts
    /\ clock \in Nows
    /\ Idle

Next ==
    \/ StartRun
    \/ DryRun
    \/ RowMissingEmail
    \/ RowContactFailed
    \/ RowPast
    \/ RowUnresolved
    \/ RowBooked
    \/ RowBookingFailed
    \/ FinishRun

Spec == Init /\ [][Next]_vars

\* one step of the row loop of a live run (lines 200-336)
RowStep ==
    \/ RowMissingEmail
    \/ RowContactFailed
    \/ RowPast
    \/ RowUnresolved
    \/ RowBooked
    \/ RowBookingFailed
    \/ FinishRun

\* one live run, from its entry to its return
NextLive == StartRun \/ RowStep

SpecLive == Init /\ [][NextLive]_vars

\* a run that entered the row loop keeps running: the loop is synchronous
\* and every collaborator call returns within its timeout of 30 seconds
SpecFair == SpecLive /\ WF_vars(RowStep)

----------------------------------------------------------------------------
(* Specification of the Resolution Policy as a function of the two tables *)

\* two calls of _resolve_service_and_staff with the same arguments, once per
\* behaviour (the function keeps no state between calls)
Evaluate ==
    \E loc \in Locations, name \in ServiceNames,
       sid \in InlineServiceIds, staff \in InlineStaffIds :
        /\ rs_args = NoArgs
        /\ rs_args' = [location_id |-> loc, service_name |-> name,
                       csv_service_id |-> sid, csv_staff_id |-> staff]
        /\ rs_first' \in ResolveResults(mappings, services, loc, name, sid, staff)
        /\ rs_second' \in ResolveResults(mappings, services, loc, name, sid, staff)
        /\ UNCHANGED <<inputs, remote, appointments, pc, locals, result,
                       preview, calls, preview_calls, parser, classifier, remapper,
                       clock>>

InitResolve ==
    /\ location_id = "L1"
    /\ has_creds = TRUE
    /\ csv = <<>>
    /\ date_format = NoFormat
    /\ override_availability = TRUE
    /\ mappings \in MappingTables
    /\ services \in ServiceTables
    /\ contacts = <<>>
    /\ clock = 0
    /\ Idle

NextResolve == Evaluate

SpecResolve == InitResolve /\ [][NextResolve]_vars

----------------------------------------------------------------------------
(* Specification of parse_csv_rows called directly, as a generator *)

\* data rows that differ in their timestamps only
ParseRowSet ==
    {Row(<<"a">>, Cut, Blank, Blank, v, v) :
        v \in {"01/02/2025 10:00:00", "13/01/2025 10:00:00",
                "2030-03-04T10:00:00", "01/02/2025"}}
    \cup {Row(<<"a">>, Cut, Blank, Blank, "01/02/2025 10:00:00", "garbage"),
          Row(<<"a">>, Cut, Blank, Blank, "", "13/01/2025 10:00:00")}

RECURSIVE ParseFiles(_)
ParseFiles(n) ==
    IF n = 0 THEN {<<>>}
    ELSE ParseFiles(n - 1) \cup
         {Append(f, r) : f \in {g \in ParseFiles(n - 1) : Len(g) = n - 1},
                         r \in ParseRowSet}

ParseFormats == {NoFormat, "", "DD/MM/YYYY", "MM/DD/YYYY", "ISO", "D-M-Y"}

\* next() returns a record
GenYield ==
    /\ gen = "open"
    /\ LET n == GeneratorNext(csv, date_format, skip_invalid, reader)
       IN  /\ n.kind = "yield"
           /\ yielded' = Append(yielded, Record(csv, date_format, n.at))
           /\ reader' = n.at
    /\ UNCHANGED <<inputs, remote, appointments, pc, locals, result, preview,
                   calls, preview_calls, resolv, classifier, remapper, clock,
                   skip_invalid, raised, gen>>

\* next() raises ValueError (strict mode)
GenRaise ==
    /\ gen = "open"
    /\ LET n == GeneratorNext(csv, date_format, skip_invalid, reader)
       IN  /\ n.kind = "raise"
           /\ raised' = ParseError(csv, n.at)
           /\ reader' = n.at
    /\ gen' = "closed"
    /\ UNCHANGED <<inputs, remote, appointments, pc, locals, result, preview,
                   calls, preview_calls, resolv, classifier, remapper, clock,
                   skip_invalid, yielded>>

\* next() raises StopIteration: the reader is exhausted
GenStop ==
    /\ gen = "open"
    /\ LET n == GeneratorNext(csv, date_format, skip_invalid, reader)
       IN  /\ n.kind = "stop"
           /\ reader' = n.at
    /\ gen' = "closed"
    /\ UNCHANGED <<inputs, remote, appointments, pc, locals, result, preview,
                   calls, preview_calls, resolv, classifier, remapper, clock,
                   skip_invalid, yielded, raised>>

InitParse ==
    /\ location_id = "L1"
    /\ has_creds = TRUE
    /\ csv \in ParseFiles(MaxParseRows)
    /\ date_format \in ParseFormats
    /\ override_availability = TRUE
    /\ mappings = {} /\ services = {}
    /\ contacts = <<>>
    /\ clock = 0
    /\ pc = "idle" /\ now = 0 /\ rows = <<>>
    /\ imported = 0 /\ past_count = 0 /\ future_count = 0 /\ created_bookings = 0
    /\ errors = <<>> /\ row_results = <<>>
    /\ result = NoResult /\ preview = NoResult
    /\ calls = <<>> /\ preview_calls = <<>>
    /\ bookings = <<>> /\ appointments = <<>>
    /\ rs_args = NoArgs /\ rs_first = Unresolved /\ rs_second = Unresolved
    /\ skip_invalid \in BOOLEAN
    /\ reader = 0 /\ yielded = <<>> /\ raised = NoRaise /\ gen = "open"
    /\ raw_error = None /\ friendly = NotCalled
    /\ record = NoRecord /\ column_mapping = <<>> /\ mapped = NotMapped

NextParse == GenYield \/ GenRaise \/ GenStop

SpecParse == InitParse /\ [][NextParse]_vars

----------------------------------------------------------------------------
(* Specification of the error classifier as a function of the raw text *)

\* one call of _friendly_booking_error
Classify ==
    /\ friendly = NotCalled
    /\ friendly' = _friendly_booking_error(raw_error)
    /\ UNCHANGED <<inputs, remote, appointments, pc, locals, result, preview,
                   calls, preview_calls, resolv, parser, remapper, clock,
                   raw_error>>

InitClassify ==
    /\ location_id = "L1"
    /\ has_creds = TRUE
    /\ csv = <<>>
    /\ date_format = NoFormat
    /\ override_availability = TRUE
    /\ mappings = {} /\ services = {}
    /\ contacts = <<>>
    /\ clock = 0
    /\ pc = "idle" /\ now = 0 /\ rows = <<>>
    /\ imported = 0 /\ past_count = 0 /\ future_count = 0 /\ created_bookings = 0
    /\ errors = <<>> /\ row_results = <<>>
    /\ result = NoResult /\ preview = NoResult
    /\ calls = <<>> /\ preview_calls = <<>>
    /\ bookings = <<>> /\ appointments = <<>>
    /\ rs_args = NoArgs /\ rs_first = Unresolved /\ rs_second = Unresolved
    /\ skip_invalid = TRUE /\ reader = 0 /\ yielded = <<>>
    /\ raised = NoRaise /\ gen = "closed"
    /\ raw_error \in RawTexts(MaxFragments) \cup {None}
    /\ friendly = NotCalled
    /\ record = NoRecord /\ column_mapping = <<>> /\ mapped = NotMapped

NextClassify == Classify

SpecClassify == InitClassify /\ [][NextClassify]_vars

----------------------------------------------------------------------------
(* Specification of _apply_column_mapping as a function of its arguments *)

\* normalized header names of a file: two named columns, a column whose
\* header had a space, and a column with an empty header cell
HeaderKeys == {<<"a">>, <<"b">>, <<"a", "_", "b">>, Blank}

\* the cell of the row under each header
CellOf(key) ==
    IF key = <<"a">> THEN <<"1">>
    ELSE IF key = <<"b">> THEN <<"2">>
    ELSE IF key = <<"a", "_", "b">> THEN <<"3">>
    ELSE <<"4">>

RemapRecords == {[k \in D |-> CellOf(k)] : D \in SUBSET HeaderKeys}

LogicalNames == {<<"a">>, <<"b">>, <<"c">>}

\* header names as a client writes them in column_mapping
CsvHeaderNames ==
    {<<"A">>, <<" ", "b", " ">>, <<"a", " ", "B">>, <<"z">>, <<" ">>, Blank, None}

\* the items of a dict of up to n entries: the logical names are distinct
RECURSIVE ColumnMappings(_)
ColumnMappings(n) ==
    IF n = 0 THEN {<<>>}
    ELSE ColumnMappings(n - 1) \cup
         {Append(m, <<our, h>>) :
             m \in {x \in ColumnMappings(n - 1) : Len(x) = n - 1},
             our \in LogicalNames, h \in CsvHeaderNames}

DistinctKeys(m) == \A i, j \in 1..Len(m) : m[i][1] = m[j][1] => i = j

ApplyMapping ==
    /\ ~mapped.done
    /\ mapped' = [done |-> TRUE, out |-> _apply_column_mapping(record, column_mapping)]
    /\ UNCHANGED <<inputs, remote, appointments, pc, locals, result, preview,
                   calls, preview_calls, resolv, parser, classifier, clock,
                   record, column_mapping>>

InitRemap ==
    /\ location_id = "L1"
    /\ has_creds = TRUE
    /\ csv = <<>>
    /\ date_format = NoFormat
    /\ override_availability = TRUE
    /\ mappings = {} /\ services = {}
    /\ contacts = <<>>
    /\ clock = 0
    /\ pc = "idle" /\ now = 0 /\ rows = <<>>
    /\ imported = 0 /\ past_count = 0 /\ future_count = 0 /\ created_bookings = 0
    /\ errors = <<>> /\ row_results = <<>>
    /\ result = NoResult /\ preview = NoResult
    /\ calls = <<>> /\ preview_calls = <<>>
    /\ bookings = <<>> /\ appointments = <<>>
    /\ rs_args = NoArgs /\ rs_first = Unresolved /\ rs_second = Unresolved
    /\ skip_invalid = TRUE /\ reader = 0 /\ yielded = <<>>
    /\ raised = NoRaise /\ gen = "closed"
    /\ raw_error = None /\ friendly = NotCalled
    /\ record \in RemapRecords
    /\ column_mapping \in {m \in ColumnMappings(MaxEntries) : DistinctKeys(m)}
    /\ mapped = NotMapped

NextRemap == ApplyMapping

SpecRemap == InitRemap /\ [][NextRemap]_vars

----------------------------------------------------------------------------
(* Properties of the import pipeline (specification Spec) *)

\* data row k of the file has a start and an end that parse under the
\* format list of the run
BothParse(k) ==
    /\ Parsed[date_format][csv[k].start_time] # NoTime
    /\ Parsed[date_format][csv[k].end_time] # NoTime

\* positions of the trace entries of one operation for one file line
CallsOf(trace, op, n) ==
    {j \in 1..Len(trace) : trace[j].op = op /\ trace[j].row = n}

\* the live run has returned its summary
LiveDone == pc = "done" /\ result.success

\* C1: with contact and booking collaborators that succeed, the dry run and
\* the live run of the same file give every yielded row the same success
\* flag, and would_succeed counts the live rows with success=true.
C1_DryLiveParity ==
    ( /\ LiveDone
      /\ preview.success
      /\ \A j \in 1..Len(calls) :
            /\ calls[j].op \in {"search", "create"} => ~calls[j].failed
            /\ calls[j].op = "book" => calls[j].ok )
    => /\ Len(preview.row_results) = Len(result.row_results)
       /\ \A k \in 1..Len(result.row_results) :
            /\ preview.row_results[k].row = result.row_results[k].row
            /\ preview.row_results[k].success = result.row_results[k].success
       /\ preview.would_succeed = CountSuccess(result.row_results, TRUE)

\* the trace of a dry run holds one Resolution Policy call for every yielded
\* row with a non-blank email, and nothing else
DryRunTraceOK ==
    preview.success =>
        /\ \A j \in 1..Len(preview_calls) : preview_calls[j].op = "resolve"
        /\ \A k \in 1..Len(csv) :
              Cardinality(CallsOf(preview_calls, "resolve", k + 1)) =
                  IF BothParse(k) /\ Strip(csv[k].email) # Blank THEN 1 ELSE 0
        /\ Len(preview.row_results) = Cardinality({k \in 1..Len(csv) : BothParse(k)})

\* C2: a dry run makes no contact search, contact create or booking call and
\* persists no ImportedAppointment: the appointment table and the remote
\* contact and booking stores are unchanged by it, while the Resolution
\* Policy is evaluated once for every yielded row with a non-blank email.
C2_DryRunFrame ==
    [][ preview' # preview =>
          /\ UNCHANGED <<contacts, bookings, appointments, calls>>
          /\ DryRunTraceOK' ]_vars

\* a dry run over a file with a blank-email row and an evaluated row, made
\* after a live run has persisted appointments
C2_Witness ==
    /\ preview.success
    /\ Len(preview.row_results) = 2
    /\ Len(preview_calls) = 1
    /\ appointments # <<>>

\* C3: the remote store never holds two contacts created by the pipeline for
\* the same email, whatever the search-by-email calls returned.
C3_NoDuplicateContacts ==
    \A i, j \in 1..Len(contacts) :
        ( /\ contacts[i].by_pipeline /\ contacts[j].by_pipeline
          /\ contacts[i].email = contacts[j].email ) => i = j

\* C4 as claimed: in a live run every row that passes validation (both
\* timestamps parsed, email non-blank) causes exactly one ImportedAppointment
\* to be created, whatever the outcome of contact reconciliation, resolution
\* and booking; rows dropped by the parser produce none.
C4_OneAppointmentPerValidRow ==
    LiveDone =>
        \A k \in 1..Len(csv) :
            Cardinality(CallsOf(calls, "persist", k + 1)) =
                IF BothParse(k) /\ Strip(csv[k].email) # Blank THEN 1 ELSE 0

\* C4 amended: in a live run every row that passes validation and whose
\* contact is found or created causes exactly one ImportedAppointment to be
\* created, whatever the outcome of resolution and booking; a row whose
\* contact can be neither found nor created, a row with a blank email and a
\* row dropped by the parser produce none.  The rows created by the run are
\* the last rows of the table and carry the row's email and start time.
C4_OneAppointmentPerReconciledRow ==
    LiveDone =>
        LET created == {j \in 1..Len(calls) : calls[j].op = "persist"}
        IN  /\ \A k \in 1..Len(csv) :
                 LET reconciled ==
                         \E j \in 1..Len(calls) :
                             /\ calls[j].row = k + 1
                             /\ calls[j].op \in {"search", "create"}
                             /\ calls[j].ok
                     mine == CallsOf(calls, "persist", k + 1)
                 IN  /\ Cardinality(mine) =
                            IF BothParse(k) /\ Strip(csv[k].email) # Blank /\ reconciled
                            THEN 1 ELSE 0
                     /\ \A j \in mine :
                            /\ calls[j].pk \in 1..Len(appointments)
                            /\ appointments[calls[j].pk].email = Strip(csv[k].email)
                            /\ appointments[calls[j].pk].start_time =
                                   Parsed[date_format][csv[k].start_time]
            /\ {calls[j].pk : j \in created} =
                   (Len(appointments) - Cardinality(created) + 1)..Len(appointments)
            /\ result.imported = Cardinality(created)

\* a finished live run in which one row's contact could not be created and
\* another row's booking call failed: one appointment for two valid rows
C4_Witness ==
    /\ LiveDone
    /\ Len(result.row_results) = 2
    /\ \E j \in 1..Len(calls) : calls[j].op = "create" /\ calls[j].failed
    /\ \E j \in 1..Len(calls) : calls[j].op = "book" /\ ~calls[j].ok
    /\ Cardinality({j \in 1..Len(calls) : calls[j].op = "persist"}) = 1

\* C5: the row_results of a completed live run hold exactly one entry for
\* each row the parser yields and none for a row it drops, in source order
\* with strictly increasing row numbers.
C5_RowResultsInSourceOrder ==
    LiveDone =>
        LET rr == result.row_results
        IN  /\ {rr[i].row : i \in 1..Len(rr)} = {k + 1 : k \in {k \in 1..Len(csv) : BothParse(k)}}
            /\ \A i, j \in 1..Len(rr) : i < j => rr[i].row < rr[j].row

\* a completed live run over two data rows of which the parser drops the first
C5_Witness ==
    /\ LiveDone
    /\ Len(csv) = 2
    /\ ~BothParse(1)
    /\ Len(result.row_results) = 1
    /\ result.row_results[1].row = 3

\* the parsed start of data row k
StartOf(k) == Parsed[date_format][csv[k].start_time]

\* data row k is yielded with a non-blank email and its contact was found
\* or created
Reconciled(k) ==
    /\ BothParse(k)
    /\ Strip(csv[k].email) # Blank
    /\ \E j \in 1..Len(calls) :
          calls[j].row = k + 1 /\ calls[j].op \in {"search", "create"} /\ calls[j].ok

\* the ImportedAppointment rows the run created for data row k
PersistedOf(k) == {appointments[calls[j].pk] : j \in CallsOf(calls, "persist", k + 1)}

\* the row-results of the run for data row k
ResultsOf(k) ==
    {result.row_results[i] : i \in {i \in 1..Len(result.row_results) :
                                        result.row_results[i].row = k + 1}}

\* the entries of the aggregate errors for data row k
ErrorsOf(k) == {i \in 1..Len(result.errors) : result.errors[i].row = k + 1}

\* the triples the Resolution Policy may return for data row k
TriplesOf(k) == RecordTriples(Record(csv, date_format, k))

\* C15: within one live run every persisted is_past flag equals
\* (start_time < now) for the single now captured before the first row, so
\* two rows with equal start times are both past or both future, however
\* much time passes during the collaborator calls between them.
C15_SingleNow ==
    (pc \in {"rows", "done"} /\ has_creds) =>
        /\ \A i \in 1..Len(appointments) :
              appointments[i].is_past = (appointments[i].start_time < now)
        /\ \A i, j \in 1..Len(appointments) :
              appointments[i].start_time = appointments[j].start_time
                  => appointments[i].is_past = appointments[j].is_past

\* two rows with the same start were persisted as future although the wall
\* clock has passed their start during the run
C15_Witness ==
    /\ LiveDone
    /\ Len(appointments) = 2
    /\ appointments[1].start_time = appointments[2].start_time
    /\ now <= appointments[1].start_time
    /\ appointments[1].start_time < clock
    /\ ~appointments[2].is_past

\* C16: for every past-dated row with a non-blank email whose contact is
\* resolved, the live run persists exactly one ImportedAppointment with
\* is_past=true and no booking id, makes no Resolution Policy call and no
\* booking call for the row, and records success=true, whether or not the
\* row's service_name is resolvable.
C16_PastRowSavedOnly ==
    LiveDone =>
        \A k \in 1..Len(csv) :
            (Reconciled(k) /\ StartOf(k) < now) =>
                /\ Cardinality(CallsOf(calls, "persist", k + 1)) = 1
                /\ \A a \in PersistedOf(k) : a.is_past /\ a.ghl_booking_id = NoId
                /\ CallsOf(calls, "resolve", k + 1) = {}
                /\ CallsOf(calls, "book", k + 1) = {}
                /\ Cardinality(ResultsOf(k)) = 1
                /\ \A r \in ResultsOf(k) : r.success /\ r.ghl_booking_id = NoId

\* a past row whose service no catalog resolves, and one whose service the
\* catalogs resolve, were both saved
C16_Witness ==
    /\ LiveDone
    /\ \E k \in 1..Len(csv) :
          /\ Reconciled(k) /\ StartOf(k) < now
          /\ TriplesOf(k) = {Unresolved}
          /\ PersistedOf(k) # {}
    /\ bookings = <<>>

\* C17: for every future-dated, contact-resolved row whose service/staff
\* cannot be resolved, the live run persists one ImportedAppointment with
\* is_past=false and no booking id, makes no booking call, appends one
\* explanatory error to the aggregate errors, counts the row in imported and
\* future_count, and records the row as processed (success=true) with the
\* error attached.
C17_UnresolvedRowProcessed ==
    LiveDone =>
        /\ \A k \in 1..Len(csv) :
              (Reconciled(k) /\ ~(StartOf(k) < now) /\ TriplesOf(k) = {Unresolved}) =>
                  /\ Cardinality(CallsOf(calls, "persist", k + 1)) = 1
                  /\ \A a \in PersistedOf(k) : ~a.is_past /\ a.ghl_booking_id = NoId
                  /\ CallsOf(calls, "book", k + 1) = {}
                  /\ Cardinality(ErrorsOf(k)) = 1
                  /\ \A i \in ErrorsOf(k) : result.errors[i].text = UnresolvedMsg
                  /\ Cardinality(ResultsOf(k)) = 1
                  /\ \A r \in ResultsOf(k) :
                        r.success /\ r.ghl_booking_id = NoId /\ r.error = UnresolvedMsg
        /\ result.imported = Len(appointments)
        /\ result.future_count =
              Cardinality({i \in 1..Len(appointments) : ~appointments[i].is_past})
        /\ result.past_count =
              Cardinality({i \in 1..Len(appointments) : appointments[i].is_past})

\* a run with one future row that could not be resolved has finished
C17_Witness ==
    /\ LiveDone
    /\ \E k \in 1..Len(csv) :
          /\ Reconciled(k) /\ ~(StartOf(k) < now) /\ TriplesOf(k) = {Unresolved}
          /\ PersistedOf(k) # {}
    /\ result.imported = 1 /\ result.future_count = 1

\* C18: for every future-dated resolved row the ImportedAppointment is
\* persisted whether or not the booking call succeeds: on success it stores
\* the returned booking id and the row-result is success=true with that id;
\* on failure it stores no booking id and the row-result is success=false
\* with the classified message.  created_bookings always equals the number
\* of persisted appointments with a booking id.
C18_PersistedWhateverTheBooking ==
    /\ (pc \in {"rows", "done"} /\ has_creds) =>
          created_bookings =
              Cardinality({i \in 1..Len(appointments) :
                              appointments[i].ghl_booking_id # NoId})
    /\ LiveDone =>
          /\ result.created_bookings = created_bookings
          /\ \A k \in 1..Len(csv) :
                ( /\ Reconciled(k) /\ ~(StartOf(k) < now)
                  /\ Unresolved \notin TriplesOf(k) ) =>
                    /\ Cardinality(CallsOf(calls, "book", k + 1)) = 1
                    /\ Cardinality(CallsOf(calls, "persist", k + 1)) = 1
                    /\ Cardinality(ResultsOf(k)) = 1
                    /\ \A j \in CallsOf(calls, "book", k + 1), a \in PersistedOf(k),
                          r \in ResultsOf(k) :
                          /\ ~a.is_past
                          /\ IF calls[j].ok
                             THEN /\ a.ghl_booking_id # NoId
                                  /\ a.ghl_booking_id \in
                                         {bookings[b].id : b \in 1..Len(bookings)}
                                  /\ r.success
                                  /\ r.ghl_booking_id = a.ghl_booking_id
                             ELSE /\ a.ghl_booking_id = NoId
                                  /\ ~r.success
                                  /\ r.error = _friendly_booking_error(calls[j].error)

\* a run in which one booking succeeded and another failed has finished with
\* two appointments
C18_Witness ==
    /\ LiveDone
    /\ Len(appointments) = 2
    /\ result.created_bookings = 1
    /\ \E j \in 1..Len(calls) : calls[j].op = "book" /\ ~calls[j].ok
    /\ \E j \in 1..Len(calls) : calls[j].op = "book" /\ calls[j].ok

\* the booking collaborator reports a conflict: its error text is one the
\* classifier files under slot-conflict
ReportsConflict(call) ==
    /\ Truthy(call.error)
    /\ Contains(Lower(call.error), KwConflict) \/ Contains(Lower(call.error), KwBooked)
    /\ ~Contains(Lower(call.error), KwGone)

\* C19: the run's override_availability flag is passed unchanged to every
\* booking call; when it is false and the booking collaborator reports a
\* conflict, the row-result is success=false with the 'This slot is already
\* taken' message, the message is appended to the aggregate errors, and the
\* ImportedAppointment is persisted with no booking id.
C19_ConflictSurfaced ==
    /\ \A j \in 1..Len(calls) :
          calls[j].op = "book" => calls[j].override = override_availability
    /\ (LiveDone /\ ~override_availability) =>
          \A k \in 1..Len(csv) :
              \A j \in CallsOf(calls, "book", k + 1) :
                  ReportsConflict(calls[j]) =>
                      /\ \A r \in ResultsOf(k) :
                            /\ ~r.success
                            /\ SubSeq(r.error, 1, Len(SlotTakenMsg)) = SlotTakenMsg
                      /\ ResultsOf(k) # {}
                      /\ \E i \in ErrorsOf(k) :
                            SubSeq(result.errors[i].text, 1, Len(SlotTakenMsg)) = SlotTakenMsg
                      /\ Cardinality(CallsOf(calls, "persist", k + 1)) = 1
                      /\ \A a \in PersistedOf(k) : a.ghl_booking_id = NoId

\* a run with override_availability=false has finished after a booking call
\* that reported a conflict
C19_Witness ==
    /\ LiveDone
    /\ ~override_availability
    /\ \E j \in 1..Len(calls) : calls[j].op = "book" /\ ReportsConflict(calls[j])

\* the failure dict of the claim: success=false, all counts zero, no errors
IsFailure(dict) ==
    /\ dict.success = FALSE
    /\ dict.imported = 0 /\ dict.past_count = 0 /\ dict.future_count = 0
    /\ dict.created_bookings = 0
    /\ dict.errors = <<>>

\* C21: when no credential record exists for the location, run_import, live
\* or dry, returns the failure (success=false, all counts zero, no errors):
\* the run never enters the row loop, no record is drawn from the parser, no
\* collaborator or Resolution Policy call is made and nothing is persisted.
C21_NoCredentialsIsFatal ==
    [][~has_creds =>
          /\ pc' # "rows" /\ rows' = <<>>
          /\ calls' = <<>> /\ preview_calls' = <<>>
          /\ UNCHANGED <<contacts, bookings, appointments>>
          /\ (pc' = "done" => IsFailure(result'))
          /\ (preview' # preview => IsFailure(preview'))]_vars

\* a live run and a dry run of a file with a valid row both returned the
\* failure, with a contact store that holds a contact
C21_Witness ==
    /\ ~has_creds
    /\ Records(csv, date_format) # <<>>
    /\ pc = "done" /\ IsFailure(result)
    /\ preview # NoResult /\ IsFailure(preview)
    /\ contacts # <<>> /\ appointments = <<>>

\* the yielded rows are all in the returned row_results, once each
Accounted ==
    LET recs == Records(csv, date_format)
    IN  /\ Len(result.row_results) = Len(recs)
        /\ \A k \in 1..Len(recs) : result.row_results[k].row = recs[k].row_num

\* the last row-result reports a failure or carries an error message
LastFailed(rr) == rr # <<>> /\ (~rr[Len(rr)].success \/ rr[Len(rr)].error # None)

\* C22: a row that fails (missing email, contact search/create failure,
\* unresolved service/staff, booking failure) leaves the run in the row loop
\* at the next record, and a run that entered the row loop eventually returns
\* success=true with every yielded row in row_results.
C22_RowFailuresDoNotAbort ==
    /\ [][(row_results' # row_results /\ LastFailed(row_results')) =>
             pc' = "rows" /\ rows # <<>> /\ rows' = Tail(rows)]_vars
    /\ (pc = "rows") ~> (pc = "done" /\ result.success /\ Accounted)

\* a run of two rows returned after its first row failed
C22_Witness ==
    /\ LiveDone /\ Accounted
    /\ Len(result.row_results) = 2
    /\ ~result.row_results[1].success
    /\ result.row_results[2].success

\* the row-result carries an error message
CarriesError(rr) == rr.error # None

\* the row numbers of a list of entries, in order
RowsOf(entries) == [k \in 1..Len(entries) |-> entries[k].row]

\* C23: at every point of a live run, and in the returned summary, the
\* aggregate errors list holds one string for each row-result that carries
\* an error message and none for any other row, in source row order; every
\* failed row-result carries a message.
C23_OneErrorPerFailedRow ==
    /\ RowsOf(errors) = RowsOf(SelectSeq(row_results, CarriesError))
    /\ \A k \in 1..Len(errors) : Truthy(errors[k].text)
    /\ \A k \in 1..Len(row_results) :
          ~row_results[k].success => CarriesError(row_results[k])
    /\ \A i, j \in 1..Len(errors) : i < j => errors[i].row < errors[j].row
    /\ LiveDone => result.errors = errors /\ result.row_results = row_results

\* a returned run whose first row is error-free and whose second row is an
\* unresolved row, saved and reported with its message
C23_Witness ==
    /\ LiveDone
    /\ Len(result.row_results) = 2 /\ Len(result.errors) = 1
    /\ ~CarriesError(result.row_results[1])
    /\ result.row_results[2].success /\ CarriesError(result.row_results[2])
    /\ result.errors[1].row = result.row_results[2].row

\* C24: every ImportedAppointment a live run for location L persists records
\* L as its owning location, and a past-dated one is returned by the
\* past-appointments read for L and by the read for no other location.
C24_OwnedByLocation ==
    \A j \in 1..Len(calls) :
        calls[j].op = "persist" =>
            /\ appointments[calls[j].pk].location_id = location_id
            /\ appointments[calls[j].pk].is_past =>
                  /\ calls[j].pk \in PastAppointmentsList(appointments, has_creds,
                                                          location_id)
                  /\ \A other \in Locations \ {location_id} :
                        calls[j].pk \notin PastAppointmentsList(appointments, TRUE,
                                                                other)

\* the run is at a yielded record whose email is blank after trimming
AtBlankEmail == AtRow /\ ~Truthy(Strip(CurrentRecord.email))

\* the indices of the yielded records whose email is blank after trimming
BlankEmails(recs) == {k \in 1..Len(recs) : ~Truthy(Strip(recs[k].email))}

\* C27: a yielded row whose email is blank after trimming is recorded as
\* one failed row-result 'Missing email' and, in a live run, one aggregate
\* error string; the step makes no contact search, contact create,
\* resolution or booking call, persists nothing and leaves imported,
\* past_count, future_count and created_bookings as they were.  A dry run
\* records the row the same way and makes no resolution call for it.
C27_MissingEmailRow ==
    /\ [][(AtBlankEmail /\ rows' # rows) =>
             /\ row_results' = Append(row_results,
                                      RowResult(CurrentRecord.row_num, FALSE, NoId,
                                                MissingEmailMsg))
             /\ Len(errors') = Len(errors) + 1
             /\ SubSeq(errors', 1, Len(errors)) = errors
             /\ errors'[Len(errors')].row = CurrentRecord.row_num
             /\ UNCHANGED <<calls, contacts, bookings, appointments, imported,
                            past_count, future_count, created_bookings>>
             /\ rows' = Tail(rows) /\ pc' = "rows"]_vars
    /\ [](preview.success =>
             LET recs == Records(csv, date_format)
             IN  \A k \in BlankEmails(recs) :
                    /\ preview.row_results[k] =
                          RowResult(recs[k].row_num, FALSE, NoId, MissingEmailMsg)
                    /\ CallsOf(preview_calls, "resolve", recs[k].row_num) = {})

\* a live run and a dry run of a file with a blank-email row and another
\* row: the other row was imported, the blank-email row is reported once
C27_Witness ==
    /\ LiveDone /\ preview.success
    /\ BlankEmails(Records(csv, date_format)) = {2}
    /\ result.imported = 1 /\ Len(result.errors) = 1
    /\ result.row_results[2].error = MissingEmailMsg
    /\ preview.row_results[2].error = MissingEmailMsg
    /\ preview.would_fail = 1

\* the row numbers a file can give
RowNums == 2..(Len(csv) + 1)

\* the row-results recorded so far for row number n
RowResultsOf(n) == {i \in 1..Len(row_results) : row_results[i].row = n}

\* C28: for each row of a live run there is at most one contact search and
\* at most one contact create; a create follows a search of the same row
\* that returned no contact id; a row whose search and create both returned
\* no id has one failed row-result, no persisted appointment, and neither a
\* resolution nor a booking call.
C28_SearchBeforeCreate ==
    \A n \in RowNums :
        LET searches == CallsOf(calls, "search", n)
            creates  == CallsOf(calls, "create", n)
        IN  /\ Cardinality(searches) <= 1
            /\ Cardinality(creates) <= 1
            /\ \A c \in creates : \E q \in searches : q < c /\ ~calls[q].ok
            /\ \A j \in 1..Len(calls) :
                  (calls[j].row = n /\ calls[j].op \in {"resolve", "book", "persist"})
                      => \E q \in searches \cup creates : q < j /\ calls[q].ok
            /\ (\E q \in searches, c \in creates : ~calls[q].ok /\ ~calls[c].ok) =>
                  /\ CallsOf(calls, "persist", n) = {}
                  /\ CallsOf(calls, "book", n) = {}
                  /\ CallsOf(calls, "resolve", n) = {}
                  /\ Cardinality(RowResultsOf(n)) = 1
                  /\ \A i \in RowResultsOf(n) :
                        ~row_results[i].success /\ row_results[i].error = ContactMsg

\* a returned run: the first row's contact was found by the search alone,
\* the second row's search and create both returned no id
C28_Witness ==
    /\ LiveDone /\ Len(csv) = 2
    /\ CallsOf(calls, "search", 2) # {} /\ CallsOf(calls, "create", 2) = {}
    /\ CallsOf(calls, "persist", 2) # {}
    /\ \E q \in CallsOf(calls, "search", 3), c \in CallsOf(calls, "create", 3) :
          ~calls[q].ok /\ ~calls[c].ok
    /\ Len(appointments) = 1

\* C29: the booking collaborator is called at most once for a row, and only
\* for a yielded row that is not past against the run's now, has a
\* non-blank email, a contact id the search or the create returned, and a
\* Resolution Policy result with both service_id and staff_id; the call
\* carries the triple that Resolution Policy call returned and the id of
\* the row's contact.
C29_BookingOncePerResolvedFutureRow ==
    \A n \in RowNums :
        LET books == CallsOf(calls, "book", n)
            rec   == Record(csv, date_format, n - 1)
        IN  /\ Cardinality(books) <= 1
            /\ \A b \in books :
                  /\ BothParse(n - 1)
                  /\ rec.start_dt >= now
                  /\ Truthy(Strip(rec.email))
                  /\ \E q \in CallsOf(calls, "search", n) \cup CallsOf(calls, "create", n) :
                        q < b /\ calls[q].ok
                  /\ calls[b].contact_id \in 1..Len(contacts)
                  /\ contacts[calls[b].contact_id].id = calls[b].contact_id
                  /\ contacts[calls[b].contact_id].email = Strip(rec.email)
                  /\ CallsOf(calls, "resolve", n) = {b - 1}
                  /\ calls[b - 1].triple \in TriplesOf(n - 1)
                  /\ Truthy(calls[b - 1].triple[1]) /\ Truthy(calls[b - 1].triple[2])
                  /\ <<calls[b].service_id, calls[b].staff_id, calls[b].calendar_id>>
                        = calls[b - 1].triple

\* a returned run of two future rows of one client: one booking call for
\* each, with the calendar of the mapping and the contact the first row
\* created and the second row found
C29_Witness ==
    /\ LiveDone /\ Len(csv) = 2
    /\ \E b \in CallsOf(calls, "book", 2), d \in CallsOf(calls, "book", 3) :
          /\ calls[b].calendar_id = C1
          /\ calls[d].contact_id = calls[b].contact_id
          /\ \E c \in CallsOf(calls, "create", 2) : calls[c].ok
          /\ CallsOf(calls, "create", 3) = {}

\* the appointments the live run has persisted so far
PersistedByRun == {calls[j].pk : j \in {i \in 1..Len(calls) : calls[i].op = "persist"}}

\* C30: between the rows of a live run and in the returned summary,
\* imported is the number of ImportedAppointments the run has persisted,
\* imported = past_count + future_count, created_bookings <= future_count
\* and imported <= the number of row-results; past_count and
\* created_bookings count the persisted rows with is_past and with a
\* booking id.  In the dict of a dry run, total_rows = would_succeed +
\* would_fail = the number of row-results.
C30_CountersAgree ==
    /\ imported = Cardinality(PersistedByRun)
    /\ PersistedByRun = 1..Len(appointments)
    /\ imported = past_count + future_count
    /\ created_bookings <= future_count
    /\ imported <= Len(row_results)
    /\ past_count = Cardinality({pk \in PersistedByRun : appointments[pk].is_past})
    /\ created_bookings =
          Cardinality({pk \in PersistedByRun : appointments[pk].ghl_booking_id # NoId})
    /\ LiveDone =>
          /\ result.imported = imported /\ result.past_count = past_count
          /\ result.future_count = future_count
          /\ result.created_bookings = created_bookings
          /\ Len(result.row_results) = Len(row_results)
    /\ preview.success =>
          /\ preview.total_rows = preview.would_succeed + preview.would_fail
          /\ preview.total_rows = Len(preview.row_results)
          /\ preview.total_rows = Len(Records(csv, date_format))

\* a returned run of a past row and a booked future row, and a dry run of
\* the same file
C30_Witness ==
    /\ LiveDone /\ preview.success
    /\ result.imported = 2 /\ result.past_count = 1 /\ result.future_count = 1
    /\ result.created_bookings = 1
    /\ preview.total_rows = 2 /\ preview.would_fail >= 1

----------------------------------------------------------------------------
(* Properties of the Resolution Policy (specification SpecResolve) *)

Evaluated == rs_args # NoArgs

InlineService == OrBlankStrip(rs_args.csv_service_id)

InlineStaff == OrBlankStrip(rs_args.csv_staff_id)

\* the mappings and catalog entries matching the evaluated arguments
ArgMappings == MappingMatches(mappings, rs_args.location_id, rs_args.service_name)

ArgCatalog == CatalogMatches(services, rs_args.location_id, rs_args.service_name)

\* C6: when the inline service_id and the inline staff_id are both non-empty
\* after trimming, the result is (inline service_id, inline staff_id, no
\* calendar_id), whatever the mapping and catalog tables hold.
C6_InlinePath ==
    (Evaluated /\ InlineService # Blank /\ InlineStaff # Blank) =>
        /\ rs_first = <<InlineService, InlineStaff, None>>
        /\ rs_second = <<InlineService, InlineStaff, None>>

\* inline ids given with surrounding blanks, and a mapping for the same
\* service_name that names other ids
C6_Witness ==
    /\ Evaluated
    /\ rs_args.csv_service_id = <<" ", "S", "9", " ">>
    /\ rs_args.csv_staff_id = T9
    /\ \E m \in ArgMappings : m.service_id # S9 /\ m.staff_id # T9
    /\ ArgCatalog # {}
    /\ rs_first = <<S9, T9, None>>

\* C7: the result is either a triple whose service_id and staff_id are both
\* non-empty or the unresolved signal (None, None, None); never one id
\* without the other, never a calendar_id with the unresolved signal.
C7_AllOrNothing ==
    Evaluated =>
        \A r \in {rs_first, rs_second} :
            \/ r = Unresolved
            \/ Truthy(r[1]) /\ Truthy(r[2])

\* a service_id is found but the matched mapping has a blank staff_id: the
\* evaluation gives the unresolved signal
C7_Witness ==
    /\ Evaluated
    /\ InlineService = Blank /\ InlineStaff = Blank
    /\ \E m \in ArgMappings : Truthy(m.service_id) /\ ~Truthy(m.staff_id)
                                /\ Truthy(m.calendar_id)
    /\ rs_first = Unresolved

\* C8: when the inline service_id is missing, the resolved service_id is a
\* matching catalog entry's id whenever a catalog entry matches, even if a
\* mapping with another service_id matches too; it is the matched mapping's
\* service_id only when no catalog entry matches.
C8_CatalogPreferred ==
    (Evaluated /\ InlineService = Blank) =>
        \A r \in {rs_first, rs_second} :
            r # Unresolved =>
                IF ArgCatalog # {}
                THEN r[1] \in {c.service_id : c \in CatalogFirst(ArgCatalog)}
                ELSE /\ ArgMappings # {}
                     /\ r[1] \in {m.service_id : m \in MappingFirst(ArgMappings)}

\* a catalog entry and a mapping with different service_ids both match, and
\* the evaluation resolves
C8_Witness ==
    /\ Evaluated
    /\ InlineService = Blank
    /\ ArgCatalog # {} /\ ArgMappings # {}
    /\ \A c \in ArgCatalog, m \in ArgMappings : c.service_id # m.service_id
    /\ rs_first # Unresolved
    /\ rs_first[1] \in {c.service_id : c \in ArgCatalog}

\* C9: when the inline staff_id is missing and a mapping matches, the
\* resolved staff_id and calendar_id are the mapping's; and whenever
\* resolution succeeds outside the inline path with a matching mapping, the
\* returned calendar_id is that mapping's (also when an inline staff_id came
\* without an inline service_id).
C9_CalendarFromMapping ==
    (Evaluated /\ ArgMappings # {} /\ rs_first # Unresolved
       /\ ~(InlineService # Blank /\ InlineStaff # Blank)) =>
        /\ rs_first[3] \in {m.calendar_id : m \in MappingFirst(ArgMappings)}
        /\ InlineStaff = Blank =>
              rs_first[2] \in {m.staff_id : m \in MappingFirst(ArgMappings)}

\* C10: two evaluations with the same arguments on the same tables return
\* the same result.
C10_Deterministic == Evaluated => rs_first = rs_second

----------------------------------------------------------------------------
(* Properties of the parser (specification SpecParse) *)

\* the first data row whose start or end does not parse, or 0
FirstInvalid ==
    IF \A k \in 1..Len(csv) : BothParse(k) THEN 0
    ELSE CHOOSE k \in 1..Len(csv) :
            ~BothParse(k) /\ \A i \in 1..(k - 1) : BothParse(i)

YieldedRowNums == {yielded[j].row_num : j \in 1..Len(yielded)}

\* C11: in skip-invalid mode the yielded sequence is exactly the data rows
\* whose start_time and end_time both parse under the active format list,
\* in source order; every yielded record carries both parsed timestamps,
\* no row with an unparseable start or end is yielded, and nothing is raised.
C11_SkipModeYieldsValidRows ==
    skip_invalid =>
        /\ raised = NoRaise
        /\ YieldedRowNums = {k + 1 : k \in {i \in 1..reader : BothParse(i)}}
        /\ \A i, j \in 1..Len(yielded) : i < j => yielded[i].row_num < yielded[j].row_num
        /\ \A j \in 1..Len(yielded) :
              yielded[j].start_dt # NoTime /\ yielded[j].end_dt # NoTime
        /\ gen = "closed" => reader = Len(csv)

\* a skip-mode parse that dropped a row and yielded a later one has finished
C11_Witness ==
    /\ skip_invalid /\ gen = "closed"
    /\ \E k \in 1..Len(csv) :
          /\ ~BothParse(k)
          /\ \E j \in 1..Len(yielded) : yielded[j].row_num > k + 1

\* C12: in strict mode the generator raises at the first data row whose
\* start or end does not parse; the failure carries that row's number and
\* both raw values; every row before it has been yielded and no row after
\* it is.
C12_StrictModeRaisesAtFirstInvalid ==
    ~skip_invalid =>
        /\ raised # NoRaise =>
              /\ FirstInvalid # 0
              /\ raised = [row_num |-> FirstInvalid + 1,
                           start |-> csv[FirstInvalid].start_time,
                           end |-> csv[FirstInvalid].end_time]
              /\ gen = "closed"
              /\ Len(yielded) = FirstInvalid - 1
        /\ \A j \in 1..Len(yielded) :
              /\ yielded[j].row_num = j + 1
              /\ FirstInvalid # 0 => yielded[j].row_num < FirstInvalid + 1
        /\ (gen = "closed" /\ FirstInvalid # 0) => raised # NoRaise
        /\ (gen = "closed" /\ FirstInvalid = 0) => Len(yielded) = Len(csv)

\* a strict parse has raised after yielding a row, with a valid row behind
\* the malformed one
C12_Witness ==
    /\ ~skip_invalid /\ raised # NoRaise
    /\ Len(yielded) >= 1
    /\ \E k \in 1..Len(csv) : k > FirstInvalid /\ BothParse(k)

\* the parse of a value under the first format of the list that accepts it
FirstAccepting(value, fmts) ==
    LET ks == {k \in 1..Len(fmts) : Strptime(value, fmts[k]) # NoTime}
    IN  IF ks = {} THEN NoTime
        ELSE Strptime(value, fmts[CHOOSE k \in ks : \A i \in ks : k <= i])

\* the candidate formats of the run: the preset's when the hint names one
Candidates ==
    IF date_format \in PresetNames THEN DATE_FORMAT_PRESETS[date_format]
    ELSE DATETIME_FORMATS

C26_RowNumberIsFilePosition ==
    /\ \A j \in 1..Len(yielded) :
          LET n == yielded[j].row_num
          IN  /\ n \in 2..(reader + 1)
              /\ yielded[j].start_dt = Parsed[date_format][csv[n - 1].start_time]
              /\ yielded[j].end_dt = Parsed[date_format][csv[n - 1].end_time]
              /\ Cardinality({i \in 1..(n - 1) : BothParse(i)}) = j
    /\ \A i, j \in 1..Len(yielded) : i < j => yielded[i].row_num < yielded[j].row_num

\* the second yielded record is the third data row, numbered 4: the row
\* between was dropped and kept its number
C26_Witness ==
    /\ skip_invalid
    /\ Len(yielded) = 2
    /\ yielded[1].row_num = 2 /\ yielded[2].row_num = 4
    /\ ~BothParse(2)
    /\ csv[1].start_time # csv[3].start_time

----------------------------------------------------------------------------
(* Properties of the error classifier (specification SpecClassify) *)

Classified == friendly # NotCalled

\* the raw text holds the keyword, in any case
Has(keyword) == Truthy(raw_error) /\ Contains(Lower(raw_error), keyword)

\* the pass-through of the raw text: its first sentence (the text before the
\* first separator of the highest-ranking kind that occurs, trimmed, with a
\* full stop), else its first 120 characters with an ellipsis, else the text
PassedThrough ==
    \/ \E k \in 1..Len(Separators) :
          /\ Contains(raw_error, Separators[k])
          /\ \A i \in 1..(k - 1) : ~Contains(raw_error, Separators[i])
          /\ \E n \in 0..Len(raw_error) :
                /\ SubSeq(raw_error, n + 1, n + Len(Separators[k])) = Separators[k]
                /\ ~Contains(SubSeq(raw_error, 1, n + Len(Separators[k]) - 1), Separators[k])
                /\ friendly = Strip(SubSeq(raw_error, 1, n)) \o <<".">>
    \/ /\ \A k \in 1..Len(Separators) : ~Contains(raw_error, Separators[k])
       /\ Len(raw_error) > 120
       /\ friendly = SubSeq(raw_error, 1, 120) \o <<".", ".", ".">>
    \/ /\ \A k \in 1..Len(Separators) : ~Contains(raw_error, Separators[k])
       /\ Len(raw_error) <= 120
       /\ friendly = raw_error

\* C20 as claimed: first match in a fixed order, case-insensitively: 'no
\* longer available' gives slot-no-longer-available even with 'conflict' in
\* the text; otherwise 'conflict' or 'already booked' gives slot-conflict;
\* otherwise 'internal server error' or '500' gives generic-unavailable; a
\* text with no keyword is passed through; the result is never empty.
C20_FirstMatchWins ==
    (Classified /\ Truthy(raw_error)) =>
        /\ friendly # Blank
        /\ IF Has(KwGone) THEN friendly = SlotGoneMsg \o OverrideHint
           ELSE IF Has(KwConflict) \/ Has(KwBooked) THEN friendly = SlotTakenMsg \o OverrideHint
           ELSE IF Has(KwServerError) \/ Has(Kw500) THEN friendly = SlotUnavailableMsg
           ELSE PassedThrough

\* C20 amended: as claimed, except that 'internal server error' or '500'
\* gives generic-unavailable only when the text also holds 'slot' or
\* 'available', and is passed through otherwise; a missing or empty raw
\* error gives the default message.
C20_FirstMatchWinsWithSlotGuard ==
    Classified =>
        /\ friendly # Blank
        /\ IF ~Truthy(raw_error) THEN friendly = BookingMsgText
           ELSE IF Has(KwGone) THEN friendly = SlotGoneMsg \o OverrideHint
           ELSE IF Has(KwConflict) \/ Has(KwBooked) THEN friendly = SlotTakenMsg \o OverrideHint
           ELSE IF (Has(KwServerError) \/ Has(Kw500)) /\ (Has(KwSlot) \/ Has(KwAvailable))
           THEN friendly = SlotUnavailableMsg
           ELSE PassedThrough

\* a text holding '500' and neither 'slot' nor 'available' nor a conflict
\* keyword has been classified and was passed through
C20_Witness ==
    /\ Classified
    /\ Has(Kw500) /\ ~Has(KwSlot) /\ ~Has(KwAvailable) /\ ~Has(KwConflict)
    /\ ~Has(KwBooked)
    /\ friendly = Fr500

----------------------------------------------------------------------------
(* Properties of the column remapping (specification SpecRemap) *)

\* the logical name is a key of column_mapping
NamedIn(key) == \E i \in 1..Len(column_mapping) : column_mapping[i][1] = key

\* the csv_header_name column_mapping gives for a logical name
HeaderFor(key) ==
    column_mapping[CHOOSE i \in 1..Len(column_mapping) : column_mapping[i][1] = key][2]

\* the value under the logical name is the row's original value under the
\* normalized header name, or the original value under the logical name
\* (empty when there is none) when the row has no such header
Remapped(key) ==
    LET norm == CsvKeyNorm(HeaderFor(key))
    IN  /\ key \in DOMAIN mapped.out
        /\ mapped.out[key] = IF norm \in DOMAIN record THEN record[norm]
                             ELSE IF key \in DOMAIN record THEN record[key]
                             ELSE Blank

\* Remapped for a reader of the result that takes a missing key as empty
\* (record.get(key, ""))
RemappedValue(key) ==
    LET norm == CsvKeyNorm(HeaderFor(key))
    IN  Get(mapped.out, key, Blank) =
            IF norm \in DOMAIN record THEN record[norm] ELSE Get(record, key, Blank)

\* the key is in the result as it was in the record
Untouched(key) ==
    /\ key \in DOMAIN mapped.out <=> key \in DOMAIN record
    /\ key \in DOMAIN record => mapped.out[key] = record[key]

Reverse(seq) == [k \in 1..Len(seq) |-> seq[Len(seq) + 1 - k]]

RemapKeys == DOMAIN record \cup DOMAIN mapped.out \cup LogicalNames

\* C25: for each entry of column_mapping with a non-empty header name the
\* value under the logical name becomes the row's original value under the
\* normalized header name, or stays the value under the logical name when
\* the row has no such header; the entries in the opposite order give the
\* same record, and keys not named in the mapping are unchanged.
C25_RemapFromOriginal ==
    mapped.done =>
        /\ \A key \in RemapKeys :
              IF NamedIn(key)
              THEN (HeaderFor(key) \notin {None, Blank}) => RemappedValue(key)
              ELSE Untouched(key)
        /\ _apply_column_mapping(record, Reverse(column_mapping)) = mapped.out

\* C25 as amended: the entries that remap are those whose header name is
\* non-empty after normalization (trimmed, lowercased, spaces to
\* underscores); an entry whose header name normalizes to the empty string
\* leaves its logical name as it was.
C25_RemapFromOriginalNormalized ==
    mapped.done =>
        /\ \A key \in RemapKeys :
              IF NamedIn(key) /\ CsvKeyNorm(HeaderFor(key)) # Blank
              THEN Remapped(key)
              ELSE Untouched(key)
        /\ _apply_column_mapping(record, Reverse(column_mapping)) = mapped.out

\* a mapping that swaps two columns of the row has swapped their values
C25_Witness ==
    /\ mapped.done
    /\ column_mapping = << <<(<<"a">>), <<" ", "b", " ">> >>, <<(<<"b">>), (<<"A">>)>> >>
    /\ <<"a">> \in DOMAIN record /\ <<"b">> \in DOMAIN record
    /\ mapped.out[<<"a">>] = record[<<"b">>]
    /\ mapped.out[<<"b">>] = record[<<"a">>]
    /\ record[<<"a">>] # record[<<"b">>]

====
